---------------------------- MODULE Spec2Model ----------------------------
(***************************************************************************)
(* The device registry, session handling, synchronisation and schema       *)
(* upload pipeline of internal/api/server.go (the Server of lines          *)
(* 219-1031), as a state machine.                                          *)
(*                                                                         *)
(* A *Switch is a heap address: heap[p] is the record behind pointer p,    *)
(* and the map s.switches holds pointers, so a goroutine that keeps a      *)
(* pointer after deleteSwitch still reads and writes the detached record.  *)
(* Every section of a handler that runs under s.mu is one action; what a   *)
(* handler does after it released the lock (answering from the pointer,    *)
(* the remote calls of a sync) is a later action of the same goroutine.    *)
(* Time is in seconds: now is time.Now().                                  *)
(***************************************************************************)
EXTENDS Integers, Sequences, FiniteSets, Bags, TLC

(***************************************************************************)
(* Bounds of the model.                                                    *)
(***************************************************************************)
\* creates in a run of the registry specifications
MaxDevices == 2
\* goroutines in flight at the same time: syncs, and handlers that released
\* the lock and have not answered yet
MaxGoroutines == 2
\* advances of the clock in a run
MaxTicks == 2
\* schema requests in a run
MaxRequests == 2

(***************************************************************************)
(* Program constants.                                                      *)
(***************************************************************************)
\* time.Time{}: the zero time, before every time.Now()
ZeroTime == 0
\* 10 * time.Minute, in seconds
TokenLifetime == 600
\* schemaBytes[0] == 0x1f
GzipMagic0 == 31
\* schemaBytes[1] == 0x8b
GzipMagic1 == 139
\* 30 * time.Second, in seconds
TickerInterval == 30
\* http.StatusOK and the other answers of the handlers
StatusOK == 200
StatusCreated == 201
StatusNotFound == 404
StatusInternalServerError == 500

VARIABLES
    switches,       \* s.switches: id -> pointer
    heap,           \* the Switch records ever allocated, by pointer
    nextID,         \* s.nextID
    uploadTokens,   \* s.uploadTokens: token -> switchID
    timers,         \* the cleanup goroutines of fetchSchema, asleep
    now,            \* time.Now(), in seconds
    ticks,          \* how often the clock advanced
    syncs,          \* the goroutines running syncSwitch
    pending,        \* handlers between their locked section and their answer
    resp,           \* the last answer a handler wrote
    created,        \* ids allocated by createSwitch, in order
    deleted,        \* ids removed by deleteSwitch
    accepted,       \* tokens for which uploadSchema answered 200
    issued,         \* the tokens fetchSchema generated and when, in order
    pass            \* the goroutine of syncLoop: its ticker and its pass

vars == <<switches, heap, nextID, uploadTokens, timers, now, ticks, syncs,
          pending, resp, created, deleted, accepted, issued, pass>>

registryVars == <<switches, heap, nextID>>
tokenVars == <<uploadTokens, timers>>
clockVars == <<now, ticks>>
historyVars == <<created, deleted, accepted, issued>>

(***************************************************************************)
(* Helpers.                                                                *)
(***************************************************************************)
Range(f) == {f[x] : x \in DOMAIN f}

\* strings.HasSuffix
HasSuffix(s, suffix) ==
    /\ Len(s) >= Len(suffix)
    /\ SubSeq(s, Len(s) - Len(suffix) + 1, Len(s)) = suffix

\* fmt.Sprintf("%s:%d", ip, port)
AddrPort(ip, port) == ip \o ":" \o ToString(port)

\* protocol := "http"; if sw.UseHTTPS { protocol = "https" }
Protocol(sw) == IF sw.UseHTTPS THEN "https" ELSE "http"

\* fmt.Sprintf("%s://%s:%d", protocol, sw.IPAddress, sw.Port)
BaseURL(sw) == Protocol(sw) \o "://" \o AddrPort(sw.IPAddress, sw.Port)

\* a *time.Time or *SystemInfo: <<>> is nil, <<v>> points to v
Nil == <<>>
Ptr(v) == <<v>>

\* &Switch{ID, Name, IPAddress, Port, UseHTTPS, Username, Password, Status};
\* the other fields have their zero values
NewSwitch(id, req) ==
    [ID |-> id,
     Name |-> AddrPort(req.IPAddress, req.Port),
     IPAddress |-> req.IPAddress,
     Port |-> req.Port,
     UseHTTPS |-> IF req.UseHTTPS = Nil THEN TRUE ELSE req.UseHTTPS[1],
     Username |-> req.Username,
     Password |-> req.Password,
     Status |-> "connecting",
     LastSync |-> Nil,
     SystemInfo |-> Nil,
     AuthToken |-> "",
     TokenExpiry |-> ZeroTime,
     OpenAPISchema |-> "",
     SchemaFetchedAt |-> Nil]

\* what c.JSON writes of a *Switch: the fields not tagged json:"-"
JSONView(sw) ==
    [ID |-> sw.ID,
     Name |-> sw.Name,
     IPAddress |-> sw.IPAddress,
     Port |-> sw.Port,
     UseHTTPS |-> sw.UseHTTPS,
     Username |-> sw.Username,
     Status |-> sw.Status,
     LastSync |-> sw.LastSync,
     SystemInfo |-> sw.SystemInfo,
     OpenAPISchema |-> sw.OpenAPISchema,
     SchemaFetchedAt |-> sw.SchemaFetchedAt]

\* a map after m[k] = v
MapPut(m, k, v) == [x \in DOMAIN m \cup {k} |-> IF x = k THEN v ELSE m[x]]

\* delete(m, k) that removes nothing
MapDeleteNothing(m, k) == m

\* a map after delete(m, k)
MapDelete(m, k) == [x \in DOMAIN m \ {k} |-> m[x]]

EmptyMap == [x \in {} |-> 0]

\* the answer of a handler
Answer(op, id, code, body) == [op |-> op, id |-> id, code |-> code, body |-> body]

NoAnswer == Answer("none", 0, 0, {})

\* a goroutine joins or leaves a bag of goroutines
\* a go statement that starts nothing when an equal goroutine is running
SpawnOnce(bag, g) == IF BagIn(g, bag) THEN bag ELSE bag (+) SetToBag({g})

Spawn(bag, g) == bag (+) SetToBag({g})
Finish(bag, g) == bag (-) SetToBag({g})

Init ==
    /\ switches = EmptyMap
    /\ heap = <<>>
    /\ nextID = 1
    /\ uploadTokens = EmptyMap
    /\ timers = EmptyBag
    /\ now = ZeroTime + 1
    /\ ticks = 0
    /\ syncs = EmptyBag
    /\ pending = EmptyBag
    /\ resp = NoAnswer
    /\ created = <<>>
    /\ deleted = {}
    /\ accepted = {}
    /\ issued = <<>>
    /\ pass = [tick |-> FALSE, snapshot |-> <<>>, i |-> 0]


(***************************************************************************)
(* Goroutines.                                                             *)
(***************************************************************************)
\* the call of syncSwitch the goroutine of syncLoop is in, if any
LoopTasks == {g \in BagToSet(syncs) : g.loop}

\* n more goroutines started by handlers fit in the bound; the goroutine of
\* syncLoop is there from the start and is not counted
Room(n) ==
    BagCardinality(syncs) - Cardinality(LoopTasks) + BagCardinality(pending) + n
        <= MaxGoroutines

NoRequest == [url |-> "", username |-> "", password |-> "", token |-> ""]

\* go s.syncSwitch(sw): the goroutine before its first statement
SyncTask(p) == [sw |-> p, pc |-> "start", req |-> NoRequest, loop |-> FALSE]

\* s.syncSwitch(sw) called by syncAllSwitches, before its first statement
LoopTask(p) == [sw |-> p, pc |-> "start", req |-> NoRequest, loop |-> TRUE]

\* a handler that left its locked section and still has to answer; text is
\* the schema an upload is about to store, or the X-Auth-Token a schema
\* request was sent with
Handler(op, id, p, token, text) ==
    [op |-> op, id |-> id, sw |-> p, token |-> token, text |-> text]

\* a nil *Switch: the handler holds an id only
NoPointer == 0

(***************************************************************************)
(* Device registry: createSwitch, deleteSwitch, updateSwitch, getSwitch,   *)
(* listSwitches.                                                           *)
(***************************************************************************)
\* the counter left as it is
NextIDStuck(n) == n

\* line 368: s.nextID++
NextIDAfter(n) == n + 1

\* lines 356-372: the locked section of createSwitch and the go statement
createSwitch(req) ==
    /\ Len(created) < MaxDevices
    /\ Room(2)
    /\ LET p == Len(heap) + 1 IN
        /\ heap' = Append(heap, NewSwitch(nextID, req))
        /\ switches' = MapPut(switches, nextID, p)
        /\ nextID' = NextIDAfter(nextID)
        /\ syncs' = Spawn(syncs, SyncTask(p))
        /\ pending' = Spawn(pending, Handler("create", nextID, p, "", ""))
        /\ created' = Append(created, nextID)
    /\ UNCHANGED <<tokenVars, clockVars, pass, resp, deleted, accepted, issued>>

\* lines 385-394
deleteSwitch(id) ==
    /\ IF id \in DOMAIN switches
         THEN /\ switches' = MapDelete(switches, id)
              /\ deleted' = deleted \cup {id}
              /\ resp' = Answer("delete", id, StatusOK, {})
         ELSE /\ resp' = Answer("delete", id, StatusNotFound, {})
              /\ UNCHANGED <<switches, deleted>>
    /\ UNCHANGED <<heap, nextID, tokenVars, clockVars, pass, syncs, pending, created,
                   accepted, issued>>

\* an update that resets the token and forgets its expiry
ApplyUpdateKeepsExpiry(sw, req) ==
    LET ip == IF req.IPAddress # "" THEN req.IPAddress ELSE sw.IPAddress
        port == IF req.Port # 0 THEN req.Port ELSE sw.Port
        withPassword == req.Password # ""
    IN  [sw EXCEPT
            !.IPAddress = ip,
            !.Port = port,
            !.UseHTTPS = IF req.UseHTTPS # Nil THEN req.UseHTTPS[1] ELSE @,
            !.Username = IF req.Username # "" THEN req.Username ELSE @,
            !.Password = IF withPassword THEN req.Password ELSE @,
            !.AuthToken = IF withPassword THEN "" ELSE @,
            !.Name = AddrPort(ip, port),
            !.Status = "connecting"]

\* an update that assigns the port of the request without testing it
ApplyUpdateAnyPort(sw, req) ==
    LET ip == IF req.IPAddress # "" THEN req.IPAddress ELSE sw.IPAddress
        withPassword == req.Password # ""
    IN  [sw EXCEPT
            !.IPAddress = ip,
            !.Port = req.Port,
            !.UseHTTPS = IF req.UseHTTPS # Nil THEN req.UseHTTPS[1] ELSE @,
            !.Username = IF req.Username # "" THEN req.Username ELSE @,
            !.Password = IF withPassword THEN req.Password ELSE @,
            !.AuthToken = IF withPassword THEN "" ELSE @,
            !.TokenExpiry = IF withPassword THEN ZeroTime ELSE @,
            !.Name = AddrPort(ip, req.Port),
            !.Status = "connecting"]

\* an update that drops what the last sync read from the switch
ApplyUpdateDroppingInfo(sw, req) ==
    LET ip == IF req.IPAddress # "" THEN req.IPAddress ELSE sw.IPAddress
        port == IF req.Port # 0 THEN req.Port ELSE sw.Port
        withPassword == req.Password # ""
    IN  [sw EXCEPT
            !.IPAddress = ip,
            !.Port = port,
            !.UseHTTPS = IF req.UseHTTPS # Nil THEN req.UseHTTPS[1] ELSE @,
            !.Username = IF req.Username # "" THEN req.Username ELSE @,
            !.Password = IF withPassword THEN req.Password ELSE @,
            !.AuthToken = IF withPassword THEN "" ELSE @,
            !.TokenExpiry = IF withPassword THEN ZeroTime ELSE @,
            !.Name = AddrPort(ip, port),
            !.Status = "connecting",
            !.LastSync = Nil,
            !.SystemInfo = Nil]

\* lines 427-449: the assignments of updateSwitch to the record behind p
ApplyUpdate(sw, req) ==
    LET ip == IF req.IPAddress # "" THEN req.IPAddress ELSE sw.IPAddress
        port == IF req.Port # 0 THEN req.Port ELSE sw.Port
        withPassword == req.Password # ""
    IN  [sw EXCEPT
            !.IPAddress = ip,
            !.Port = port,
            !.UseHTTPS = IF req.UseHTTPS # Nil THEN req.UseHTTPS[1] ELSE @,
            !.Username = IF req.Username # "" THEN req.Username ELSE @,
            !.Password = IF withPassword THEN req.Password ELSE @,
            !.AuthToken = IF withPassword THEN "" ELSE @,
            !.TokenExpiry = IF withPassword THEN ZeroTime ELSE @,
            !.Name = AddrPort(ip, port),
            !.Status = "connecting"]

\* lines 419-453: the locked section of updateSwitch and the go statement
updateSwitch(id, req) ==
    IF id \in DOMAIN switches
      THEN /\ Room(2)
           /\ LET p == switches[id] IN
               /\ heap' = [heap EXCEPT ![p] = ApplyUpdate(heap[p], req)]
               /\ syncs' = Spawn(syncs, SyncTask(p))
               /\ pending' = Spawn(pending, Handler("update", id, p, "", ""))
           /\ UNCHANGED <<switches, nextID, tokenVars, clockVars, pass, resp, historyVars>>
      ELSE /\ resp' = Answer("update", id, StatusNotFound, {})
           /\ UNCHANGED <<registryVars, tokenVars, clockVars, pass, syncs, pending,
                          historyVars>>

\* lines 323-330: the lookup of getSwitch under the read lock
getSwitch(id) ==
    IF id \in DOMAIN switches
      THEN /\ Room(1)
           /\ pending' = Spawn(pending, Handler("get", id, switches[id], "", ""))
           /\ UNCHANGED <<registryVars, tokenVars, clockVars, pass, syncs, resp,
                          historyVars>>
      ELSE /\ resp' = Answer("get", id, StatusNotFound, {})
           /\ UNCHANGED <<registryVars, tokenVars, clockVars, pass, syncs, pending,
                          historyVars>>

\* lines 332, 374, 455: c.JSON(..., gin.H{"switch": sw}) after the lock was
\* released; it reads the record as it is when the answer is written
answerSwitch(h) ==
    /\ BagIn(h, pending)
    /\ h.op \in {"create", "update", "get"}
    /\ resp' = Answer(h.op, h.id,
                      IF h.op = "create" THEN StatusCreated ELSE StatusOK,
                      {JSONView(heap[h.sw])})
    /\ pending' = Finish(pending, h)
    /\ UNCHANGED <<registryVars, tokenVars, clockVars, pass, syncs, historyVars>>

\* lines 303-313: the answer is written under the read lock
listSwitches ==
    /\ resp' = Answer("list", 0, StatusOK,
                      {JSONView(heap[switches[id]]) : id \in DOMAIN switches})
    /\ UNCHANGED <<registryVars, tokenVars, clockVars, pass, syncs, pending, historyVars>>

(***************************************************************************)
(* Synchronisation: syncSwitch, authenticateSwitch, fetchSystemInfo.       *)
(* An answer of the device is [err, status, decodes, ...]: err is a        *)
(* transport failure of insecureClient.Do, status the HTTP status, decodes *)
(* whether the body is JSON of the expected shape.                         *)
(***************************************************************************)
\* line 675: sw.AuthToken == "" || time.Now().After(sw.TokenExpiry)
NeedsAuth(sw, t) == sw.AuthToken = "" \/ t > sw.TokenExpiry

\* lines 711-725: the request authenticateSwitch builds from the record
AuthRequest(sw) ==
    [url |-> BaseURL(sw) \o "/rest/openapi/auth/token",
     username |-> sw.Username,
     password |-> sw.Password,
     token |-> ""]

\* lines 755-762: the request fetchSystemInfo builds from the record
StateRequest(sw) ==
    [url |-> BaseURL(sw) \o "/rest/openapi/v0/state/system",
     username |-> "",
     password |-> "",
     token |-> sw.AuthToken]

\* an authentication that accepts every answer it can decode
AuthSucceedsAnyStatus(reply) == ~reply.err /\ reply.decodes

\* lines 727-745: authenticateSwitch returns nil
AuthSucceeds(reply) == ~reply.err /\ reply.status = StatusOK /\ reply.decodes

\* lines 764-792: fetchSystemInfo returns no error
FetchSucceeds(reply) == ~reply.err /\ reply.status = StatusOK /\ reply.decodes

\* a SystemInfo that reports the last card of the chassis
ParseStateLastCard(state) ==
    LET hasCard == Len(state.cards) > 0
        last == Len(state.cards) IN
    [SysName |-> state.sysName,
     SysDescription |-> state.sysDescription,
     SysLocation |-> state.sysLocation,
     SysContact |-> state.sysContact,
     ModelName |-> IF hasCard THEN state.cards[last].modelName ELSE "",
     FirmwareVersion |-> IF hasCard THEN state.cards[last].firmwareVersion ELSE "",
     NosType |-> state.nosType,
     ChassisId |-> state.chassisId,
     NumPorts |-> IF hasCard THEN state.cards[last].numPorts ELSE 0,
     IsDigitalTwin |-> state.isDigitalTwin]

\* lines 794-810: the SystemInfo built from the decoded state
ParseState(state) ==
    LET hasCard == Len(state.cards) > 0 IN
    [SysName |-> state.sysName,
     SysDescription |-> state.sysDescription,
     SysLocation |-> state.sysLocation,
     SysContact |-> state.sysContact,
     ModelName |-> IF hasCard THEN state.cards[1].modelName ELSE "",
     FirmwareVersion |-> IF hasCard THEN state.cards[1].firmwareVersion ELSE "",
     NosType |-> state.nosType,
     ChassisId |-> state.chassisId,
     NumPorts |-> IF hasCard THEN state.cards[1].numPorts ELSE 0,
     IsDigitalTwin |-> state.isDigitalTwin]

\* lines 746-749: the record after a successful authentication
CommitSession(sw, token, ttl, t) ==
    [sw EXCEPT !.AuthToken = token, !.TokenExpiry = t + ttl]

\* a failed authentication that also drops the session
CommitAuthFailedClearing(sw) ==
    [sw EXCEPT !.Status = "auth_failed", !.AuthToken = "", !.TokenExpiry = ZeroTime]

\* lines 678-680: the record after a failed authentication
CommitAuthFailed(sw) == [sw EXCEPT !.Status = "auth_failed"]

\* a failed state fetch that also drops the system info
CommitErrorClearing(sw) == [sw EXCEPT !.Status = "error", !.SystemInfo = Nil]

\* a failed state fetch that also gives up the session
CommitErrorDroppingSession(sw) ==
    [sw EXCEPT !.Status = "error", !.AuthToken = "", !.TokenExpiry = ZeroTime]

\* lines 689-691: the record after a failed state fetch
CommitError(sw) == [sw EXCEPT !.Status = "error"]

\* a successful sync that takes the reported name even when it is empty
CommitOnlineAnyName(sw, info, t) ==
    [sw EXCEPT
        !.Status = "online",
        !.LastSync = Ptr(t),
        !.SystemInfo = Ptr(info),
        !.Name = info.SysName]

\* a commit that records the time of the sync and forgets what it read
CommitOnlineWithoutInfo(sw, info, t) ==
    [sw EXCEPT
        !.Status = "online",
        !.LastSync = Ptr(t),
        !.Name = IF info.SysName # "" THEN info.SysName ELSE @]

\* lines 696-705: the record after a successful sync
CommitOnline(sw, info, t) ==
    [sw EXCEPT
        !.Status = "online",
        !.LastSync = Ptr(t),
        !.SystemInfo = Ptr(info),
        !.Name = IF info.SysName # "" THEN info.SysName ELSE @]

\* the goroutine g of syncs goes on as g2
Step(g, g2) == Spawn(Finish(syncs, g), g2)

\* lines 666-668: syncSwitch returns; when syncAllSwitches called it, its
\* loop goes on to the next switch of the snapshot
Returned(g) == IF g.loop THEN [pass EXCEPT !.i = @ + 1] ELSE pass

\* lines 672-676 and 711-727: the test of the token, and the authentication
\* request sent when it fails
syncStart(g) ==
    /\ BagIn(g, syncs)
    /\ g.pc = "start"
    /\ LET sw == heap[g.sw] IN
        syncs' = IF NeedsAuth(sw, now)
                   THEN Step(g, [g EXCEPT !.pc = "auth", !.req = AuthRequest(sw)])
                   ELSE Step(g, [g EXCEPT !.pc = "authed"])
    /\ UNCHANGED <<registryVars, tokenVars, clockVars, pass, pending, resp, historyVars>>

\* a sync that authenticates again when its authentication failed
authReplyRetrying(g, reply) ==
    /\ BagIn(g, syncs)
    /\ g.pc = "auth"
    /\ IF AuthSucceeds(reply)
         THEN /\ heap' = [heap EXCEPT
                                ![g.sw] = CommitSession(@, reply.token, reply.ttl, now)]
              /\ syncs' = Step(g, [g EXCEPT !.pc = "authed", !.req = NoRequest])
         ELSE /\ heap' = [heap EXCEPT ![g.sw] = CommitAuthFailed(@)]
              /\ syncs' = Step(g, [g EXCEPT !.pc = "start", !.req = NoRequest])
    /\ UNCHANGED <<switches, nextID, tokenVars, clockVars, pass, pending, resp,
                   historyVars>>

\* lines 727-751 and 676-682: the answer to the authentication request
authReply(g, reply) ==
    /\ BagIn(g, syncs)
    /\ g.pc = "auth"
    /\ IF AuthSucceeds(reply)
         THEN /\ heap' = [heap EXCEPT
                                ![g.sw] = CommitSession(@, reply.token, reply.ttl, now)]
              /\ syncs' = Step(g, [g EXCEPT !.pc = "authed", !.req = NoRequest])
              /\ pass' = pass
         ELSE /\ heap' = [heap EXCEPT ![g.sw] = CommitAuthFailed(@)]
              /\ syncs' = Finish(syncs, g)
              /\ pass' = Returned(g)
    /\ UNCHANGED <<switches, nextID, tokenVars, clockVars, pending, resp,
                   historyVars>>

\* lines 686 and 755-764: the state request is built and sent
fetchSend(g) ==
    /\ BagIn(g, syncs)
    /\ g.pc = "authed"
    /\ syncs' = Step(g, [g EXCEPT !.pc = "fetch", !.req = StateRequest(heap[g.sw])])
    /\ UNCHANGED <<registryVars, tokenVars, clockVars, pass, pending, resp, historyVars>>

\* a sync that puts the switch back to connecting when its state request fails
fetchReplyReconnecting(g, reply) ==
    /\ BagIn(g, syncs)
    /\ g.pc = "fetch"
    /\ heap' = IF FetchSucceeds(reply)
                 THEN [heap EXCEPT ![g.sw] = CommitOnline(@, ParseState(reply.state), now)]
                 ELSE [heap EXCEPT ![g.sw].Status = "connecting"]
    /\ syncs' = Finish(syncs, g)
    /\ pass' = Returned(g)
    /\ UNCHANGED <<switches, nextID, tokenVars, clockVars, pending, resp,
                   historyVars>>

\* a sync that puts the switch it has synchronised back into the map
fetchReplyReinserting(g, reply) ==
    /\ BagIn(g, syncs)
    /\ g.pc = "fetch"
    /\ heap' = IF FetchSucceeds(reply)
                 THEN [heap EXCEPT ![g.sw] = CommitOnline(@, ParseState(reply.state), now)]
                 ELSE [heap EXCEPT ![g.sw] = CommitError(@)]
    /\ switches' = IF FetchSucceeds(reply) THEN MapPut(switches, heap[g.sw].ID, g.sw)
                                           ELSE switches
    /\ syncs' = Finish(syncs, g)
    /\ pass' = Returned(g)
    /\ UNCHANGED <<nextID, tokenVars, clockVars, pending, resp, historyVars>>

\* lines 764-811 and 687-708: the answer to the state request
fetchReply(g, reply) ==
    /\ BagIn(g, syncs)
    /\ g.pc = "fetch"
    /\ heap' = IF FetchSucceeds(reply)
                 THEN [heap EXCEPT ![g.sw] = CommitOnline(@, ParseState(reply.state), now)]
                 ELSE [heap EXCEPT ![g.sw] = CommitError(@)]
    /\ syncs' = Finish(syncs, g)
    /\ pass' = Returned(g)
    /\ UNCHANGED <<switches, nextID, tokenVars, clockVars, pending, resp,
                   historyVars>>

\* an explicit sync request that leaves the sync to the next periodic pass
syncSwitchEndpointWaits(id) ==
    IF id \in DOMAIN switches
      THEN /\ resp' = Answer("sync", id, StatusOK, {})
           /\ UNCHANGED <<registryVars, tokenVars, clockVars, pass, syncs, pending,
                          historyVars>>
      ELSE /\ resp' = Answer("sync", id, StatusNotFound, {})
           /\ UNCHANGED <<registryVars, tokenVars, clockVars, pass, syncs, pending,
                          historyVars>>

\* an explicit sync request that answers "Sync triggered" for every id
syncSwitchEndpointAlwaysOK(id) ==
    IF id \in DOMAIN switches
      THEN /\ Room(1)
           /\ syncs' = Spawn(syncs, SyncTask(switches[id]))
           /\ resp' = Answer("sync", id, StatusOK, {})
           /\ UNCHANGED <<registryVars, tokenVars, clockVars, pass, pending, historyVars>>
      ELSE /\ resp' = Answer("sync", id, StatusOK, {})
           /\ UNCHANGED <<registryVars, tokenVars, clockVars, pass, syncs, pending,
                          historyVars>>

\* lines 466-478: syncSwitchEndpoint
syncSwitchEndpoint(id) ==
    IF id \in DOMAIN switches
      THEN /\ Room(1)
           /\ syncs' = Spawn(syncs, SyncTask(switches[id]))
           /\ resp' = Answer("sync", id, StatusOK, {})
           /\ UNCHANGED <<registryVars, tokenVars, clockVars, pass, pending, historyVars>>
      ELSE /\ resp' = Answer("sync", id, StatusNotFound, {})
           /\ UNCHANGED <<registryVars, tokenVars, clockVars, pass, syncs, pending,
                          historyVars>>

(***************************************************************************)
(* updateSystemInfo: the system name, location and contact of a switch are *)
(* pushed to the switch and then written to the record. Its handler is     *)
(* [op, id, sw, pc, req] in pending; pc is its position: start (before the *)
(* session test), auth and push (waiting for the answer of the switch),    *)
(* answer (after the unlock).                                              *)
(***************************************************************************)
SystemHandler(id, p, pc, req) ==
    [op |-> "system", id |-> id, sw |-> p, pc |-> pc, req |-> req]

\* lines 537-541
UpdateSystemInfoRequest(name, location, contact) ==
    [SysName |-> name, SysLocation |-> location, SysContact |-> contact]

\* line 583: &SystemInfo{}
ZeroInfo ==
    [SysName |-> "", SysDescription |-> "", SysLocation |-> "", SysContact |-> "",
     ModelName |-> "", FirmwareVersion |-> "", NosType |-> "", ChassisId |-> "",
     NumPorts |-> 0, IsDigitalTwin |-> FALSE]

\* lines 628-640: pushSystemInfoToSwitch returns nil
PushSucceeds(reply) == ~reply.err /\ reply.status >= 200 /\ reply.status < 300

\* lines 581-590: the record after the push was accepted
CommitSystemInfo(sw, req) ==
    LET info == IF sw.SystemInfo = Nil THEN ZeroInfo ELSE sw.SystemInfo[1]
        named == IF req.SysName # "" THEN [info EXCEPT !.SysName = req.SysName] ELSE info
    IN [sw EXCEPT
          !.SystemInfo = Ptr([named EXCEPT !.SysLocation = req.SysLocation,
                                           !.SysContact = req.SysContact]),
          !.Name = IF req.SysName # "" THEN req.SysName ELSE @]

\* lines 556-563: the lookup under the read lock
updateSystemInfo(id, req) ==
    IF id \in DOMAIN switches
      THEN /\ Room(1)
           /\ pending' = Spawn(pending, SystemHandler(id, switches[id], "start", req))
           /\ UNCHANGED <<registryVars, tokenVars, clockVars, pass, syncs, resp,
                          historyVars>>
      ELSE /\ resp' = Answer("system", id, StatusNotFound, {})
           /\ UNCHANGED <<registryVars, tokenVars, clockVars, pass, syncs, pending,
                          historyVars>>

\* lines 567-568 and 575: the test of the token; the authentication request
\* or the push request is sent
systemStart(h) ==
    /\ BagIn(h, pending)
    /\ h.op = "system"
    /\ h.pc = "start"
    /\ pending' = Spawn(Finish(pending, h),
                        [h EXCEPT !.pc = IF NeedsAuth(heap[h.sw], now)
                                           THEN "auth" ELSE "push"])
    /\ UNCHANGED <<registryVars, tokenVars, clockVars, pass, syncs, resp, historyVars>>

\* lines 568-571 and 727-751: the answer to the authentication request
systemAuthReply(h, reply) ==
    /\ BagIn(h, pending)
    /\ h.op = "system"
    /\ h.pc = "auth"
    /\ IF AuthSucceeds(reply)
         THEN /\ heap' = [heap EXCEPT
                                ![h.sw] = CommitSession(@, reply.token, reply.ttl, now)]
              /\ pending' = Spawn(Finish(pending, h), [h EXCEPT !.pc = "push"])
              /\ resp' = resp
         ELSE /\ heap' = heap
              /\ pending' = Finish(pending, h)
              /\ resp' = Answer("system", h.id, 401, {})
    /\ UNCHANGED <<switches, nextID, tokenVars, clockVars, pass, syncs, historyVars>>

\* lines 575-591: the answer to the push request, and the write to the record
systemPushReply(h, reply) ==
    /\ BagIn(h, pending)
    /\ h.op = "system"
    /\ h.pc = "push"
    /\ IF PushSucceeds(reply)
         THEN /\ heap' = [heap EXCEPT ![h.sw] = CommitSystemInfo(@, h.req)]
              /\ pending' = Spawn(Finish(pending, h), [h EXCEPT !.pc = "answer"])
              /\ resp' = resp
         ELSE /\ heap' = heap
              /\ pending' = Finish(pending, h)
              /\ resp' = Answer("system", h.id, StatusInternalServerError, {})
    /\ UNCHANGED <<switches, nextID, tokenVars, clockVars, pass, syncs, historyVars>>

\* line 594: the answer is written from the record after the unlock
systemAnswer(h) ==
    /\ BagIn(h, pending)
    /\ h.op = "system"
    /\ h.pc = "answer"
    /\ resp' = Answer("system", h.id, StatusOK, {JSONView(heap[h.sw])})
    /\ pending' = Finish(pending, h)
    /\ UNCHANGED <<registryVars, tokenVars, clockVars, pass, syncs, historyVars>>

(***************************************************************************)
(* The periodic pass: syncLoop and syncAllSwitches. pass.snapshot is the   *)
(* slice of pointers the pass copied under the read lock, in the order the *)
(* range over the map gave, and pass.i the number of its calls of          *)
(* syncSwitch that returned; the call in progress is the task of syncs     *)
(* marked loop.                                                            *)
(***************************************************************************)
\* the goroutine of syncLoop waits in its select
LoopIdle == pass.i = Len(pass.snapshot) /\ LoopTasks = {}

\* a snapshot that leaves out the switches whose last sync failed
SnapshotsOfHealthy ==
    LET healthy == {p \in Range(switches) : heap[p].Status \notin {"auth_failed", "error"}} IN
    {q \in [1 .. Cardinality(healthy) -> healthy] :
        \A i, j \in DOMAIN q : i # j => q[i] # q[j]}

\* lines 659-664: the orders in which a range over the map can yield its
\* pointers
Snapshots ==
    {q \in [1 .. Cardinality(DOMAIN switches) -> Range(switches)] :
        \A i, j \in DOMAIN q : i # j => q[i] # q[j]}

\* lines 650-651 and 659-664: the tick is received and the snapshot taken
syncAllSwitches ==
    /\ LoopIdle
    /\ pass.tick
    /\ \E q \in Snapshots : pass' = [tick |-> FALSE, snapshot |-> q, i |-> 0]
    /\ UNCHANGED <<registryVars, tokenVars, clockVars, syncs, pending, resp,
                   historyVars>>

\* a loop that gives the pass up when the sync before failed
syncNextUnlessFailed ==
    /\ pass.i < Len(pass.snapshot)
    /\ LoopTasks = {}
    /\ IF pass.i > 0 /\ heap[pass.snapshot[pass.i]].Status # "online"
         THEN /\ pass' = [pass EXCEPT !.i = Len(pass.snapshot)]
              /\ syncs' = syncs
         ELSE /\ syncs' = Spawn(syncs, LoopTask(pass.snapshot[pass.i + 1]))
              /\ pass' = pass
    /\ UNCHANGED <<registryVars, tokenVars, clockVars, pending, resp, historyVars>>

\* lines 666-667: the loop calls syncSwitch for the next switch of the
\* snapshot, after the call for the switch before it returned
syncNext ==
    /\ pass.i < Len(pass.snapshot)
    /\ LoopTasks = {}
    /\ syncs' = Spawn(syncs, LoopTask(pass.snapshot[pass.i + 1]))
    /\ UNCHANGED <<registryVars, tokenVars, clockVars, pass, pending, resp,
                   historyVars>>

(***************************************************************************)
(* Schema retrieval: fetchSchema, its cleanup goroutine, uploadSchema,     *)
(* extractOpenAPIFromGzip.                                                 *)
(* An uploaded payload is [raw, size, head, gzip, entries]: raw is the     *)
(* text string(bytes), size its length, head its first two bytes, gzip     *)
(* whether gzip.NewReader accepts it, entries what tar.Reader yields from  *)
(* the decompressed stream, each [name, content, header, body] with        *)
(* header and body telling whether Next and io.ReadAll succeed there.      *)
(***************************************************************************)
\* line 832: fmt.Sprintf("%d-%d", id, time.Now().Unix())
UploadToken(id, t) == ToString(id) \o "-" \o ToString(t)

\* lines 834-844: the token is registered and its cleanup goroutine started
\* lines 846-869: the push request is sent to the switch
fetchSchema(id) ==
    IF id \in DOMAIN switches
      THEN /\ Len(issued) < MaxRequests
           /\ Room(1)
           /\ LET token == UploadToken(id, now) IN
               /\ uploadTokens' = MapPut(uploadTokens, token, id)
               /\ timers' = Spawn(timers, [token |-> token, wake |-> now + TokenLifetime])
               /\ pending' = Spawn(pending,
                                   Handler("fetchSchema", id, switches[id], token,
                                           heap[switches[id]].AuthToken))
               /\ issued' = Append(issued, [token |-> token, at |-> now])
           /\ UNCHANGED <<registryVars, clockVars, pass, syncs, resp, created, deleted,
                          accepted>>
      ELSE /\ resp' = Answer("fetchSchema", id, StatusNotFound, {})
           /\ UNCHANGED <<registryVars, tokenVars, clockVars, pass, syncs, pending,
                          historyVars>>

\* a schema request that takes its token back when the push request fails
schemaReplyRevoking(h, reply) ==
    /\ BagIn(h, pending)
    /\ h.op = "fetchSchema"
    /\ IF ~reply.err /\ reply.status = StatusOK
         THEN /\ resp' = Answer("fetchSchema", h.id, StatusOK, {h.token})
              /\ uploadTokens' = uploadTokens
         ELSE /\ resp' = Answer("fetchSchema", h.id, StatusInternalServerError, {})
              /\ uploadTokens' = MapDelete(uploadTokens, h.token)
    /\ pending' = Finish(pending, h)
    /\ UNCHANGED <<registryVars, timers, clockVars, pass, syncs, historyVars>>

\* lines 869-885: the answer of the switch to the push request
schemaReply(h, reply) ==
    /\ BagIn(h, pending)
    /\ h.op = "fetchSchema"
    /\ resp' = IF ~reply.err /\ reply.status = StatusOK
                 THEN Answer("fetchSchema", h.id, StatusOK, {h.token})
                 ELSE Answer("fetchSchema", h.id, StatusInternalServerError, {})
    /\ pending' = Finish(pending, h)
    /\ UNCHANGED <<registryVars, tokenVars, clockVars, pass, syncs, historyVars>>

\* a cleanup goroutine that ends without deleting its token
forgetToken(tm) ==
    /\ BagIn(tm, timers)
    /\ now >= tm.wake
    /\ timers' = Finish(timers, tm)
    /\ UNCHANGED <<registryVars, uploadTokens, clockVars, pass, syncs, pending, resp,
                   historyVars>>

\* lines 839-844: the cleanup goroutine wakes up
expireToken(tm) ==
    /\ BagIn(tm, timers)
    /\ now >= tm.wake
    /\ uploadTokens' = MapDelete(uploadTokens, tm.token)
    /\ timers' = Finish(timers, tm)
    /\ UNCHANGED <<registryVars, clockVars, pass, syncs, pending, resp, historyVars>>

\* line 990
IsOpenAPIName(name) == HasSuffix(name, "openapi.yaml") \/ HasSuffix(name, "openapi.yml")

\* lines 980-1000: the loop over the entries of the archive, from entry i
RECURSIVE ScanEntries(_, _)
ScanEntries(entries, i) ==
    IF i > Len(entries) THEN [ok |-> FALSE, text |-> ""]
    ELSE IF ~entries[i].header THEN [ok |-> FALSE, text |-> ""]
    ELSE IF IsOpenAPIName(entries[i].name)
           THEN IF entries[i].body
                  THEN [ok |-> TRUE, text |-> entries[i].content]
                  ELSE [ok |-> FALSE, text |-> ""]
    ELSE ScanEntries(entries, i + 1)

\* lines 968-1001
extractOpenAPIFromGzip(data) ==
    IF ~data.gzip THEN [ok |-> FALSE, text |-> ""] ELSE ScanEntries(data.entries, 1)

\* line 942
LooksGzip(data) ==
    data.size > 2 /\ data.head[1] = GzipMagic0 /\ data.head[2] = GzipMagic1

\* a multipart upload that keeps nothing of an archive it cannot extract
SchemaOfFileStrict(data) ==
    IF LooksGzip(data)
      THEN IF extractOpenAPIFromGzip(data).ok THEN extractOpenAPIFromGzip(data).text ELSE ""
      ELSE data.raw

\* lines 941-951: the schema kept of a multipart file
SchemaOfFile(data) ==
    IF LooksGzip(data) /\ extractOpenAPIFromGzip(data).ok
      THEN extractOpenAPIFromGzip(data).text
      ELSE data.raw

\* line 914: the schema kept of a request body
SchemaOfBody(data) == data.raw

\* an upload that is read and answered 200 whatever its token
uploadSchemaAnyToken(token, form, data) ==
    /\ Room(1)
    /\ pending' = Spawn(pending,
                        Handler("upload",
                                IF token \in DOMAIN uploadTokens THEN uploadTokens[token]
                                                                 ELSE 0,
                                NoPointer, token,
                                IF form = "multipart" THEN SchemaOfFile(data)
                                                      ELSE SchemaOfBody(data)))
    /\ UNCHANGED <<registryVars, tokenVars, clockVars, pass, syncs, resp, historyVars>>

\* lines 890-910 and 926-951: the token is looked up under the read lock and
\* the upload is read; form tells whether the request has a multipart "file"
uploadSchema(token, form, data) ==
    IF token \in DOMAIN uploadTokens
      THEN /\ Room(1)
           /\ pending' = Spawn(pending,
                               Handler("upload", uploadTokens[token], NoPointer, token,
                                       IF form = "multipart" THEN SchemaOfFile(data)
                                                             ELSE SchemaOfBody(data)))
           /\ UNCHANGED <<registryVars, tokenVars, clockVars, pass, syncs, resp,
                          historyVars>>
      ELSE /\ resp' = Answer("upload", 0, StatusNotFound, {token})
           /\ UNCHANGED <<registryVars, tokenVars, clockVars, pass, syncs, pending,
                          historyVars>>

\* lines 911-923 and 953-964: the locked section that stores the schema and
\* consumes the token, and the answer
\* an upload that stores the schema without the time
storeSchemaUntimed(h) ==
    /\ BagIn(h, pending)
    /\ h.op = "upload"
    /\ heap' = IF h.id \in DOMAIN switches
                 THEN [heap EXCEPT ![switches[h.id]].OpenAPISchema = h.text]
                 ELSE heap
    /\ uploadTokens' = MapDelete(uploadTokens, h.token)
    /\ resp' = Answer("upload", h.id, StatusOK, {h.token})
    /\ pending' = Finish(pending, h)
    /\ accepted' = accepted \cup {h.token}
    /\ UNCHANGED <<switches, nextID, timers, clockVars, pass, syncs, created, deleted,
                   issued>>

\* lines 953-964: the schema is stored and the token deleted under the lock
storeSchema(h) ==
    /\ BagIn(h, pending)
    /\ h.op = "upload"
    /\ heap' = IF h.id \in DOMAIN switches
                 THEN [heap EXCEPT ![switches[h.id]].OpenAPISchema = h.text,
                                   ![switches[h.id]].SchemaFetchedAt = Ptr(now)]
                 ELSE heap
    /\ uploadTokens' = MapDelete(uploadTokens, h.token)
    /\ resp' = Answer("upload", h.id, StatusOK, {h.token})
    /\ pending' = Finish(pending, h)
    /\ accepted' = accepted \cup {h.token}
    /\ UNCHANGED <<switches, nextID, timers, clockVars, pass, syncs, created, deleted,
                   issued>>

(***************************************************************************)
(* The clock: it advances by a second or to the moment the next cleanup    *)
(* goroutine wakes up; a goroutine whose time.Sleep is over runs before    *)
(* the clock advances again.                                               *)
(***************************************************************************)
Wakes == {tm.wake : tm \in BagToSet(timers)}

\* line 645: the ticker of syncLoop, created when the server starts, fires
\* between the times from and to
TickerFires(from, to) ==
    (to - (ZeroTime + 1)) \div TickerInterval > (from - (ZeroTime + 1)) \div TickerInterval

\* the channel of the ticker holds one tick: a tick that fires while one is
\* waiting is dropped
Tick(t) ==
    /\ ticks < MaxTicks
    /\ t > now
    /\ \A w \in Wakes : t <= w
    /\ now' = t
    /\ ticks' = ticks + 1
    /\ pass' = [pass EXCEPT !.tick = @ \/ TickerFires(now, t)]
    /\ UNCHANGED <<registryVars, tokenVars, syncs, pending, resp, historyVars>>

\* The next step of some goroutine reads fields of record p without holding
\* s.mu: c.JSON of getSwitch, createSwitch and updateSwitch after the unlock
\* (lines 332, 374, 455), the session test of syncSwitch (line 675) with
\* the request built by authenticateSwitch (712-719), and the request built
\* by fetchSystemInfo (755-762).
ReadsUnlocked(p) ==
    \/ \E h \in BagToSet(pending) : h.op \in {"create", "update", "get"} /\ h.sw = p
    \/ \E g \in BagToSet(syncs) : g.sw = p /\ g.pc \in {"start", "authed"}

\* The next step of some goroutine writes fields of record p under s.mu:
\* the session of authenticateSwitch (746-749) and the commits of
\* syncSwitch (678-680, 689-691, 696-705).
WritesLocked(p) ==
    \E g \in BagToSet(syncs) : g.sw = p /\ g.pc \in {"auth", "fetch"}

(***************************************************************************)
(* Inputs: requests of the callers and answers of the switches.            *)
(***************************************************************************)
\* the ids a caller may name: those allocated and one that never is
Ids == 1 .. (MaxDevices + 1)

CreateRequest(ip, port, https, user, password) ==
    [IPAddress |-> ip, Port |-> port, UseHTTPS |-> https, Username |-> user,
     Password |-> password]

UpdateRequest(ip, port, https, user, password) ==
    [IPAddress |-> ip, Port |-> port, UseHTTPS |-> https, Username |-> user,
     Password |-> password]

CreateA == CreateRequest("10.0.0.5", 9443, Ptr(TRUE), "admin", "x")
CreateB == CreateRequest("10.0.0.6", 8080, Nil, "ops", "pw")

PatchNone == UpdateRequest("", 0, Nil, "", "")
PatchPassword == UpdateRequest("", 0, Nil, "", "y")
PatchAddress == UpdateRequest("10.0.0.9", 0, Nil, "", "")
PatchPort == UpdateRequest("", 443, Nil, "", "")
PatchHTTPS == UpdateRequest("", 0, Ptr(FALSE), "", "")
PatchUsername == UpdateRequest("", 0, Nil, "root", "")

AuthAnswer(err, status, decodes, token, ttl) ==
    [err |-> err, status |-> status, decodes |-> decodes, token |-> token, ttl |-> ttl]

AuthOK(token, ttl) == AuthAnswer(FALSE, StatusOK, TRUE, token, ttl)
AuthDenied == AuthAnswer(FALSE, 401, TRUE, "", 0)
\* insecureClient.Do fails: the switch is not reached
AuthUnreachable == AuthAnswer(TRUE, 0, FALSE, "", 0)
\* an unexpected status of the switch
AuthBroken == AuthAnswer(FALSE, StatusInternalServerError, TRUE, "", 0)
\* 200 with a body that is not JSON
AuthGarbled == AuthAnswer(FALSE, StatusOK, FALSE, "", 0)

Card(model, firmware, ports) ==
    [modelName |-> model, firmwareVersion |-> firmware, numPorts |-> ports]

SystemState(name, cards) ==
    [sysName |-> name, sysDescription |-> "Fabric Engine", sysLocation |-> "",
     sysContact |-> "", nosType |-> "VOSS", chassisId |-> "c1",
     isDigitalTwin |-> FALSE, cards |-> cards]

StateAnswer(err, status, decodes, state) ==
    [err |-> err, status |-> status, decodes |-> decodes, state |-> state]

StateNamed == SystemState("sw1", <<Card("M1", "1.0", 24)>>)
StateUnnamed == SystemState("", <<>>)

StateOK(state) == StateAnswer(FALSE, StatusOK, TRUE, state)
StateRefused == StateAnswer(FALSE, StatusInternalServerError, TRUE, StateUnnamed)
\* insecureClient.Do fails: the switch is not reached
StateUnreachable == StateAnswer(TRUE, 0, FALSE, StateUnnamed)
\* the switch rejects the X-Auth-Token
StateRejected == StateAnswer(FALSE, 401, TRUE, StateUnnamed)
\* 200 with a body that is not JSON
StateGarbled == StateAnswer(FALSE, StatusOK, FALSE, StateUnnamed)

(***************************************************************************)
(* SpecRegistry: callers create, update, delete, get and list switches     *)
(* while the syncs they start fail at the authentication.                  *)
(***************************************************************************)
NextRegistry ==
    \/ createSwitch(CreateA)
    \/ \E id \in Ids : deleteSwitch(id)
    \/ \E id \in Ids : updateSwitch(id, PatchNone)
    \/ \E id \in Ids : getSwitch(id)
    \/ \E id \in Ids : syncSwitchEndpoint(id)
    \/ listSwitches
    \/ \E h \in BagToSet(pending) : answerSwitch(h)
    \/ \E g \in BagToSet(syncs) : syncStart(g)
    \/ \E g \in BagToSet(syncs) : authReply(g, AuthDenied)

SpecRegistry == Init /\ [][NextRegistry]_vars

(***************************************************************************)
(* SpecUpdate: one switch is created, updated with every kind of patch and *)
(* synchronised, with syncs that succeed and syncs that fail.              *)
(***************************************************************************)
\* the id of the one switch, and an id that is never allocated
OneId == {1, 2}

Patches == {PatchNone, PatchPassword, PatchAddress, PatchPort, PatchHTTPS,
            PatchUsername}

NextUpdate ==
    \/ created = <<>> /\ createSwitch(CreateA)
    \/ \E id \in OneId, req \in Patches : updateSwitch(id, req)
    \/ \E h \in BagToSet(pending) : answerSwitch(h)
    \/ \E g \in BagToSet(syncs) : syncStart(g)
    \/ \E g \in BagToSet(syncs), reply \in {AuthOK("tok", 1), AuthDenied} :
            authReply(g, reply)
    \/ \E g \in BagToSet(syncs) : fetchSend(g)
    \/ \E g \in BagToSet(syncs), reply \in {StateOK(StateNamed), StateRefused} :
            fetchReply(g, reply)

SpecUpdate == Init /\ [][NextUpdate]_vars

(***************************************************************************)
(* SpecSync: one switch is created and synchronised again and again while  *)
(* its answers vary, its password is changed and its session expires.      *)
(***************************************************************************)
\* the answers with which an authentication fails
AuthFailures == {AuthDenied, AuthUnreachable, AuthBroken, AuthGarbled}

\* 200 with a JSON body that has no token and no ttl, such as {}
AuthEmpty == AuthOK("", 0)

AuthAnswers == {AuthOK("tok", 1)} \cup AuthFailures

StateAnswers == {StateOK(StateNamed), StateOK(StateUnnamed), StateRefused,
                 StateUnreachable, StateRejected, StateGarbled}

NextSync ==
    \/ created = <<>> /\ createSwitch(CreateA)
    \/ \E id \in OneId : updateSwitch(id, PatchPassword)
    \/ \E id \in OneId : syncSwitchEndpoint(id)
    \/ \E h \in BagToSet(pending) : answerSwitch(h)
    \/ \E g \in BagToSet(syncs) : syncStart(g)
    \/ \E g \in BagToSet(syncs), reply \in AuthAnswers : authReply(g, reply)
    \/ \E g \in BagToSet(syncs) : fetchSend(g)
    \/ \E g \in BagToSet(syncs), reply \in StateAnswers : fetchReply(g, reply)
    \/ Tick(now + 1)

SpecSync == Init /\ [][NextSync]_vars

(***************************************************************************)
(* SpecLoop: switches are created and the periodic pass synchronises them, *)
(* with syncs that succeed and syncs that fail; the goroutine of syncLoop  *)
(* keeps running, and every remote call returns, at the latest when the    *)
(* timeout of insecureClient ends it. The switches are created before the  *)
(* ticker fires, and the clock is followed up to the tick that starts the  *)
(* first pass over switches.                                               *)
(* SpecDemand: one switch is synchronised by the periodic pass and, on     *)
(* demand, by its creation, by updates and by explicit sync requests.      *)
(***************************************************************************)
\* the switch of CreateA cannot be reached; the switch of CreateB answers,
\* and its state request succeeds or is refused
Down(req) == req.url \in {AuthRequest(NewSwitch(0, CreateA)).url,
                          StateRequest(NewSwitch(0, CreateA)).url}

PassAuthAnswers(req) == IF Down(req) THEN {AuthUnreachable} ELSE {AuthOK("tok", 3600)}

PassStateAnswers(req) ==
    IF Down(req) THEN {StateUnreachable} ELSE {StateOK(StateNamed), StateRefused}

\* the second switch created is the one of CreateB
PassCreate == IF Len(created) = 1 THEN CreateB ELSE CreateA

\* the next step of the goroutine of syncLoop
LoopStep ==
    \/ syncAllSwitches
    \/ syncNext
    \/ \E g \in LoopTasks :
        \/ syncStart(g)
        \/ \E reply \in PassAuthAnswers(g.req) : authReply(g, reply)
        \/ fetchSend(g)
        \/ \E reply \in PassStateAnswers(g.req) : fetchReply(g, reply)

NextLoop ==
    \/ pass.snapshot = <<>> /\ ~pass.tick /\ createSwitch(PassCreate)
    \/ \E h \in BagToSet(pending) : answerSwitch(h)
    \/ \E g \in BagToSet(syncs) : syncStart(g)
    \/ \E g \in BagToSet(syncs) : \E reply \in PassAuthAnswers(g.req) : authReply(g, reply)
    \/ \E g \in BagToSet(syncs) : fetchSend(g)
    \/ \E g \in BagToSet(syncs) : \E reply \in PassStateAnswers(g.req) : fetchReply(g, reply)
    \/ syncAllSwitches
    \/ syncNext
    \/ pass.snapshot = <<>> /\ ~pass.tick /\ Tick(now + TickerInterval)

SpecLoop == Init /\ [][NextLoop]_vars /\ WF_vars(LoopStep)

\* The answers of a switch to the authentication requests of the session
\* specification: a session, a 200 without token, a rejection.
SessionAuthAnswers == {AuthOK("tok", 3600), AuthEmpty, AuthDenied}

NextSession ==
    \/ created = <<>> /\ createSwitch(CreateA)
    \/ \E id \in OneId : updateSwitch(id, PatchPassword)
    \/ \E id \in OneId : syncSwitchEndpoint(id)
    \/ \E h \in BagToSet(pending) : answerSwitch(h)
    \/ \E g \in BagToSet(syncs) : syncStart(g)
    \/ \E g \in BagToSet(syncs), reply \in SessionAuthAnswers : authReply(g, reply)
    \/ \E g \in BagToSet(syncs) : fetchSend(g)
    \/ \E g \in BagToSet(syncs) : fetchReply(g, StateOK(StateNamed))

SpecSession == Init /\ [][NextSession]_vars

\* The switch of the retry specification fails some of its answers until
\* the second tick of the ticker and answers every request after it.
HealTime == ZeroTime + 1 + 2 * TickerInterval

RetryAuthAnswers ==
    IF now >= HealTime THEN {AuthOK("tok", 3600)} ELSE {AuthOK("tok", 3600), AuthDenied}

RetryStateAnswers ==
    IF now >= HealTime THEN {StateOK(StateNamed)} ELSE {StateOK(StateNamed), StateRefused}

\* the next step of the goroutine of syncLoop in the retry specification
RetryStep ==
    \/ syncAllSwitches
    \/ syncNext
    \/ \E g \in LoopTasks :
        \/ syncStart(g)
        \/ \E reply \in RetryAuthAnswers : authReply(g, reply)
        \/ fetchSend(g)
        \/ \E reply \in RetryStateAnswers : fetchReply(g, reply)

NextRetry ==
    \/ created = <<>> /\ ticks = 0 /\ createSwitch(CreateB)
    \/ \E h \in BagToSet(pending) : answerSwitch(h)
    \/ \E g \in BagToSet(syncs) : syncStart(g)
    \/ \E g \in BagToSet(syncs) : \E reply \in RetryAuthAnswers : authReply(g, reply)
    \/ \E g \in BagToSet(syncs) : fetchSend(g)
    \/ \E g \in BagToSet(syncs) : \E reply \in RetryStateAnswers : fetchReply(g, reply)
    \/ syncAllSwitches
    \/ syncNext
    \/ Tick(now + TickerInterval)

\* the goroutine of syncLoop is never stopped (stopSync is never closed)
SpecRetry == Init /\ [][NextRetry]_vars /\ WF_vars(RetryStep)

NextDemand ==
    \/ created = <<>> /\ createSwitch(CreateB)
    \/ \E id \in OneId : updateSwitch(id, PatchNone)
    \/ \E id \in OneId : syncSwitchEndpoint(id)
    \/ \E h \in BagToSet(pending) : answerSwitch(h)
    \/ \E g \in BagToSet(syncs) : syncStart(g)
    \/ \E g \in BagToSet(syncs) : \E reply \in PassAuthAnswers(g.req) : authReply(g, reply)
    \/ \E g \in BagToSet(syncs) : fetchSend(g)
    \/ \E g \in BagToSet(syncs) : \E reply \in PassStateAnswers(g.req) : fetchReply(g, reply)
    \/ syncAllSwitches
    \/ syncNext
    \/ Tick(now + TickerInterval)

SpecDemand == Init /\ [][NextDemand]_vars

(***************************************************************************)
(* SpecToken: the schema of one switch is requested and uploaded while     *)
(* time passes: tokens are consumed and expire.                            *)
(* SpecUpload: the schema of one switch is requested and uploaded as a     *)
(* request body or as a multipart file, plain or as an archive.            *)
(***************************************************************************)
Upload(raw, size, head, gzip, entries) ==
    [raw |-> raw, size |-> size, head |-> head, gzip |-> gzip, entries |-> entries]

Entry(name, content) == [name |-> name, content |-> content, header |-> TRUE, body |-> TRUE]

\* a schema sent as it is
PlainSchema == Upload("openapi: 3.0.0", 14, <<111, 112>>, FALSE, <<>>)

\* a .tar.gz with the schema as its second entry
ArchiveWithSchema ==
    Upload("tgz:README,config/openapi.yaml", 30, <<GzipMagic0, GzipMagic1>>, TRUE,
           <<Entry("README", "debug info"), Entry("config/openapi.yaml", "openapi: 3.0.3")>>)

\* a .tar.gz without a schema
ArchiveWithoutSchema ==
    Upload("tgz:README", 10, <<GzipMagic0, GzipMagic1>>, TRUE,
           <<Entry("README", "debug info")>>)

\* the gzip magic number followed by bytes gzip.NewReader rejects
BrokenGzip == Upload("gz:broken", 9, <<GzipMagic0, GzipMagic1>>, FALSE, <<>>)

\* a .tar.gz whose second header cannot be read
ArchiveBrokenHeader ==
    Upload("tgz:README,?", 12, <<GzipMagic0, GzipMagic1>>, TRUE,
           <<Entry("README", "debug info"),
             [name |-> "", content |-> "", header |-> FALSE, body |-> FALSE]>>)

\* a .tar.gz whose openapi.yml cannot be read to its end
ArchiveBrokenBody ==
    Upload("tgz:openapi.yml?", 16, <<GzipMagic0, GzipMagic1>>, TRUE,
           <<[name |-> "openapi.yml", content |-> "openapi: 3", header |-> TRUE,
              body |-> FALSE]>>)

\* the uploads that look like gzip and from which no schema is extracted
Unextractable == {BrokenGzip, ArchiveBrokenHeader, ArchiveBrokenBody, ArchiveWithoutSchema}

Uploads == {PlainSchema, ArchiveWithSchema} \cup Unextractable

Forms == {"multipart", "body"}

\* the tokens a callback may carry: those generated, and one that never is
Tokens == {issued[i].token : i \in DOMAIN issued} \cup {"0-0"}

\* the answers of the switch to the push request
PushOK == [err |-> FALSE, status |-> StatusOK]

\* the push request does not reach the switch, or the switch answers an error
PushFailures == {[err |-> TRUE, status |-> 0],
                 [err |-> FALSE, status |-> StatusInternalServerError]}

PushAnswers == {PushOK} \cup PushFailures

NextToken ==
    \/ created = <<>> /\ createSwitch(CreateA)
    \/ \E h \in BagToSet(pending) : answerSwitch(h)
    \/ \E g \in BagToSet(syncs) : syncStart(g)
    \/ \E g \in BagToSet(syncs) : authReply(g, AuthDenied)
    \/ \E id \in OneId : fetchSchema(id)
    \/ \E h \in BagToSet(pending), reply \in PushAnswers : schemaReply(h, reply)
    \/ \E token \in Tokens : uploadSchema(token, "body", PlainSchema)
    \/ \E h \in BagToSet(pending) : storeSchema(h)
    \/ \E tm \in BagToSet(timers) : expireToken(tm)
    \/ \E t \in {now + 1} \cup Wakes : Tick(t)

SpecToken == Init /\ [][NextToken]_vars

NextUpload ==
    \/ created = <<>> /\ \E req \in {CreateA, CreateB} : createSwitch(req)
    \/ \E h \in BagToSet(pending) : answerSwitch(h)
    \/ \E g \in BagToSet(syncs) : syncStart(g)
    \/ \E g \in BagToSet(syncs) : authReply(g, AuthDenied)
    \/ \E id \in OneId : fetchSchema(id)
    \/ \E h \in BagToSet(pending), reply \in PushAnswers : schemaReply(h, reply)
    \/ \E token \in Tokens, form \in Forms, data \in Uploads :
            uploadSchema(token, form, data)
    \/ \E h \in BagToSet(pending) : storeSchema(h)

SpecUpload == Init /\ [][NextUpload]_vars

(***************************************************************************)
(* SpecSchema: switches are created, updated, deleted and synchronised     *)
(* while schemas are requested and uploaded. The switch of CreateA is      *)
(* never reached.                                                          *)
(***************************************************************************)
NextSchema ==
    \/ issued = <<>> /\ syncs = EmptyBag /\ createSwitch(PassCreate)
    \/ \E id \in OneId : deleteSwitch(id)
    \/ updateSwitch(2, PatchNone)
    \/ \E h \in BagToSet(pending) : answerSwitch(h)
    \/ \E g \in BagToSet(syncs) : syncStart(g)
    \/ \E g \in BagToSet(syncs) : \E reply \in PassAuthAnswers(g.req) : authReply(g, reply)
    \/ \E g \in BagToSet(syncs) : fetchSend(g)
    \/ \E g \in BagToSet(syncs) : fetchReply(g, StateOK(StateNamed))
    \/ fetchSchema(2)
    \/ \E h \in BagToSet(pending) : schemaReply(h, PushOK)
    \/ \E token \in DOMAIN uploadTokens : uploadSchema(token, "body", PlainSchema)
    \/ \E h \in BagToSet(pending) : storeSchema(h)

SpecSchema == Init /\ [][NextSchema]_vars

(***************************************************************************)
(* SpecCards: one switch is synchronised while its state answer reports no *)
(* card, one card or the cards of a chassis.                               *)
(***************************************************************************)
StateChassis == SystemState("sw2", <<Card("M2", "2.0", 48), Card("M9", "9.9", 96)>>)

CardAnswers == {StateOK(StateUnnamed), StateOK(StateNamed), StateOK(StateChassis)}

NextCards ==
    \/ created = <<>> /\ createSwitch(CreateB)
    \/ \E id \in OneId : syncSwitchEndpoint(id)
    \/ \E h \in BagToSet(pending) : answerSwitch(h)
    \/ \E g \in BagToSet(syncs) : syncStart(g)
    \/ \E g \in BagToSet(syncs) : authReply(g, AuthOK("tok", 3600))
    \/ \E g \in BagToSet(syncs) : fetchSend(g)
    \/ \E g \in BagToSet(syncs), reply \in CardAnswers : fetchReply(g, reply)

SpecCards == Init /\ [][NextCards]_vars

(***************************************************************************)
(* SpecRotate: the password or the address of one switch is changed while  *)
(* the periodic pass synchronises it. The switch accepts every password    *)
(* and answers with a token that names the password of the request.        *)
(***************************************************************************)
TokenFor(password) == "tok:" \o password

RotateAuthAnswers(req) == {AuthOK(TokenFor(req.password), 3600)}

NextRotate ==
    \/ created = <<>> /\ createSwitch(CreateA)
    \/ \E id \in OneId, req \in {PatchPassword, PatchAddress} : updateSwitch(id, req)
    \/ \E h \in BagToSet(pending) : answerSwitch(h)
    \/ \E g \in BagToSet(syncs) : syncStart(g)
    \/ \E g \in BagToSet(syncs) : \E reply \in RotateAuthAnswers(g.req) : authReply(g, reply)
    \/ \E g \in BagToSet(syncs) : fetchSend(g)
    \/ \E g \in BagToSet(syncs), reply \in {StateOK(StateNamed), StateRejected} :
            fetchReply(g, reply)
    \/ syncAllSwitches
    \/ syncNext
    \/ pass.snapshot = <<>> /\ ~pass.tick /\ Tick(now + TickerInterval)

SpecRotate == Init /\ [][NextRotate]_vars

(***************************************************************************)
(* SpecDetach: a switch is deleted while a sync of it is under way, in a   *)
(* goroutine of its own or in a periodic pass whose snapshot holds it,     *)
(* and is looked up and listed afterwards.                                 *)
(***************************************************************************)
NextDetach ==
    \/ created = <<>> /\ createSwitch(CreateB)
    \/ syncs # EmptyBag /\ deleteSwitch(1)
    \/ getSwitch(1)
    \/ listSwitches
    \/ \E h \in BagToSet(pending) : answerSwitch(h)
    \/ \E g \in BagToSet(syncs) : syncStart(g)
    \/ \E g \in BagToSet(syncs) : authReply(g, AuthOK("tok", 3600))
    \/ \E g \in BagToSet(syncs) : fetchSend(g)
    \/ \E g \in BagToSet(syncs) : fetchReply(g, StateOK(StateNamed))
    \/ syncAllSwitches
    \/ syncNext
    \/ pass.snapshot = <<>> /\ ~pass.tick /\ Tick(now + TickerInterval)

SpecDetach == Init /\ [][NextDetach]_vars

(***************************************************************************)
(* SpecInfo: one switch is created, synchronised, updated, renamed by      *)
(* updateSystemInfo and given a schema, while its answers succeed or fail. *)
(***************************************************************************)
InfoRename == UpdateSystemInfoRequest("core1", "lab", "")

InfoAuthAnswers == {AuthOK("tok", 3600), AuthDenied}

InfoStateAnswers == {StateOK(StateNamed), StateRefused}

InfoPushAnswers == {PushOK, [err |-> FALSE, status |-> StatusInternalServerError]}

NextInfo ==
    \/ created = <<>> /\ createSwitch(CreateA)
    \/ \E id \in OneId : updateSwitch(id, PatchPassword)
    \/ \E h \in BagToSet(pending) : answerSwitch(h)
    \/ \E g \in BagToSet(syncs) : syncStart(g)
    \/ \E g \in BagToSet(syncs), reply \in InfoAuthAnswers : authReply(g, reply)
    \/ \E g \in BagToSet(syncs) : fetchSend(g)
    \/ \E g \in BagToSet(syncs), reply \in InfoStateAnswers : fetchReply(g, reply)
    \/ \E id \in OneId : updateSystemInfo(id, InfoRename)
    \/ \E h \in BagToSet(pending) : systemStart(h)
    \/ \E h \in BagToSet(pending), reply \in InfoAuthAnswers : systemAuthReply(h, reply)
    \/ \E h \in BagToSet(pending), reply \in InfoPushAnswers : systemPushReply(h, reply)
    \/ \E h \in BagToSet(pending) : systemAnswer(h)
    \/ issued = <<>> /\ (\E id \in OneId : fetchSchema(id))
    \/ \E h \in BagToSet(pending) : schemaReply(h, PushOK)
    \/ \E token \in DOMAIN uploadTokens : uploadSchema(token, "body", PlainSchema)
    \/ \E h \in BagToSet(pending) : storeSchema(h)

SpecInfo == Init /\ [][NextInfo]_vars

(***************************************************************************)
(* The properties.                                                         *)
(***************************************************************************)
\* C1 (SpecRegistry): the registry neither loses nor duplicates an id. At
\* every moment the ids in the map are the ids allocated by creates minus the
\* ids removed by deletes, no id is allocated twice, every record is stored
\* under its own id, a create answers with the id it allocated, and a list
\* answers only with switches a get would find at that moment.
RegistryKeepsIds ==
    /\ [](/\ DOMAIN switches = Range(created) \ deleted
          /\ \A i, j \in DOMAIN created : i # j => created[i] # created[j]
          /\ \A id \in DOMAIN switches : heap[switches[id]].ID = id
          /\ \A h \in BagToSet(pending) : h.op = "create" => heap[h.sw].ID = h.id
          /\ resp.op = "create" =>
                /\ resp.id \in Range(created)
                /\ \A v \in resp.body : v.ID = resp.id)
    /\ [][listSwitches =>
            /\ \A v \in resp'.body : v.ID \in DOMAIN switches'
            /\ \A id \in DOMAIN switches' : \E v \in resp'.body : v.ID = id]_vars

\* C1 witness: two creates and a delete have happened and a list answered
\* with the switch that is left.
RegistryListedAfterDelete ==
    /\ Len(created) = 2
    /\ deleted # {}
    /\ resp.op = "list"
    /\ resp.body # {}
    /\ {v.ID : v \in resp.body} = DOMAIN switches

\* C2 (SpecRegistry): ids are unique, strictly increasing and never reused.
\* The first id is 1, every id allocated is greater than all allocated
\* before and below the counter, and no step decreases the counter.
IdsNeverReused ==
    /\ [](/\ created # <<>> => created[1] = 1
          /\ \A i, j \in DOMAIN created : i < j => created[i] < created[j]
          /\ \A i \in DOMAIN created : created[i] < nextID
          /\ \A id \in deleted : id < nextID)
    /\ [][nextID' >= nextID]_vars

\* C2 witness: id 1 was deleted and the second create got id 2.
SecondIdAfterDelete ==
    /\ created = <<1, 2>>
    /\ 1 \in deleted
    /\ DOMAIN switches = {2}

\* C3 (SpecUpdate): an update with a non-empty password sets, in its one
\* locked step, the token to empty, the expiry to the zero time and the
\* status to connecting, whatever they were.
PasswordUpdateResetsSession ==
    [][\A id \in OneId, req \in Patches :
        (id \in DOMAIN switches /\ req.Password # "" /\ updateSwitch(id, req)) =>
            LET sw == heap'[switches[id]] IN
                /\ sw.Password = req.Password
                /\ sw.AuthToken = ""
                /\ sw.TokenExpiry = ZeroTime
                /\ sw.Status = "connecting"]_vars

\* C3 witness: a switch that had synchronised, so had a session, holds the
\* new password and no session.
PasswordUpdatedAfterSync ==
    \E p \in DOMAIN heap :
        /\ heap[p].Password = PatchPassword.Password
        /\ heap[p].LastSync # Nil
        /\ heap[p].AuthToken = ""
        /\ heap[p].TokenExpiry = ZeroTime
        /\ heap[p].Status = "connecting"

\* C4 (SpecSync): a sync whose authentication is answered 401 changes
\* nothing of the record but the status, which becomes auth_failed: the
\* test of the token writes nothing and the commit writes the status only.
AuthDeniedOnlySetsStatus ==
    [][\A g \in BagToSet(syncs) :
        /\ syncStart(g) => heap' = heap
        /\ authReply(g, AuthDenied) =>
            heap' = [heap EXCEPT ![g.sw].Status = "auth_failed"]]_vars

\* C4 witness: a switch that was online is auth_failed and still has its
\* system info, last sync time, name and expired session.
AuthFailedKeepsState ==
    \E p \in DOMAIN heap :
        /\ heap[p].Status = "auth_failed"
        /\ heap[p].SystemInfo # Nil
        /\ heap[p].LastSync # Nil
        /\ heap[p].Name = StateNamed.sysName
        /\ heap[p].AuthToken # ""
        /\ now > heap[p].TokenExpiry

\* C5 (SpecSync): a sync whose state request is answered 200 with a valid
\* body commits in one step status online, the time of the commit as last
\* sync time, the parsed record as system info, and the reported name as
\* name when it is not empty; an empty reported name leaves the name as it
\* was; the step changes nothing else.
SyncCommitsOnline ==
    [][\A g \in BagToSet(syncs), reply \in StateAnswers :
        (FetchSucceeds(reply) /\ fetchReply(g, reply)) =>
            LET old == heap[g.sw]
                new == heap'[g.sw]
            IN  /\ new.Status = "online"
                /\ new.LastSync = Ptr(now)
                /\ new.SystemInfo = Ptr(ParseState(reply.state))
                /\ new.SystemInfo[1].SysName = reply.state.sysName
                /\ reply.state.sysName # "" => new.Name = reply.state.sysName
                /\ reply.state.sysName = "" => new.Name = old.Name
                /\ reply.state = StateNamed =>
                        new.Name = "sw1" /\ new.SystemInfo[1].NumPorts = 24
                /\ heap' = [heap EXCEPT ![g.sw] =
                                [old EXCEPT !.Status = new.Status,
                                            !.LastSync = new.LastSync,
                                            !.SystemInfo = new.SystemInfo,
                                            !.Name = new.Name]]]_vars

\* C5 witness: a switch that took the name sw1 is synchronised again at a
\* later time with an empty reported name, and keeps the name.
SyncedOnlineKeepsName ==
    \E p \in DOMAIN heap :
        /\ heap[p].Status = "online"
        /\ heap[p].Name = "sw1"
        /\ heap[p].SystemInfo = Ptr(ParseState(StateUnnamed))
        /\ heap[p].LastSync = Ptr(now)
        /\ now > ZeroTime + 1

\* C6 (SpecToken): an upload token is accepted once. Once a callback with
\* a token was answered 200, every callback that arrives with the same
\* token afterwards is answered 404, starts no upload and changes neither
\* the token table nor a record.
TokenAcceptedOnce ==
    [][\A token \in Tokens :
        (token \in accepted /\ uploadSchema(token, "body", PlainSchema)) =>
            /\ resp' = Answer("upload", 0, StatusNotFound, {token})
            /\ pending' = pending
            /\ uploadTokens' = uploadTokens
            /\ heap' = heap]_vars

\* C7 (SpecToken): a token is gone once its lifetime is over. After more
\* than TokenLifetime seconds since it was generated a token is not in the
\* table, and a callback that arrives with it then is answered 404 and
\* starts no upload.
ExpiredTokenRejected ==
    /\ [](\A i \in DOMAIN issued :
            now > issued[i].at + TokenLifetime =>
                issued[i].token \notin DOMAIN uploadTokens)
    /\ [][\A i \in DOMAIN issued :
            (/\ now > issued[i].at + TokenLifetime
             /\ uploadSchema(issued[i].token, "body", PlainSchema)) =>
                /\ resp' = Answer("upload", 0, StatusNotFound, {issued[i].token})
                /\ pending' = pending]_vars

\* C7 witness: a token that was never accepted has outlived its lifetime
\* and a callback with it was answered 404.
ExpiredTokenRefused ==
    \E i \in DOMAIN issued :
        /\ now > issued[i].at + TokenLifetime
        /\ issued[i].token \notin accepted
        /\ resp = Answer("upload", 0, StatusNotFound, {issued[i].token})

\* C8 (SpecUpload): an accepted upload, sent as a request body or as a
\* multipart file, stores the content of config/openapi.yaml when it is a
\* gzip archive with that entry, and its raw bytes when it is a gzip
\* archive without such an entry.
UploadStoresExtractedSchema ==
    [][/\ \A token \in DOMAIN uploadTokens, form \in Forms :
            /\ uploadSchema(token, form, ArchiveWithSchema) =>
                \E h \in BagToSet(pending') :
                    /\ pending' = Spawn(pending, h)
                    /\ h.text = ArchiveWithSchema.entries[2].content
            /\ uploadSchema(token, form, ArchiveWithoutSchema) =>
                \E h \in BagToSet(pending') :
                    /\ pending' = Spawn(pending, h)
                    /\ h.text = ArchiveWithoutSchema.raw
       /\ \A h \in BagToSet(pending) :
            (h.id \in DOMAIN switches /\ storeSchema(h)) =>
                heap'[switches[h.id]].OpenAPISchema = h.text]_vars

\* C9 (SpecRegistry): create answers with a switch whose status is
\* connecting, whose name is address:port and which has no system info, no
\* last sync time and no schema, and that switch is the record stored under
\* the new id.
CreateReturnsFreshDevice ==
    resp.op = "create" =>
        \A v \in resp.body :
            /\ v.ID = resp.id
            /\ v.Status = "connecting"
            /\ v.Name = AddrPort(v.IPAddress, v.Port)
            /\ v.SystemInfo = Nil
            /\ v.LastSync = Nil
            /\ v.OpenAPISchema = ""
            /\ v.SchemaFetchedAt = Nil

\* C10 as claimed (SpecUpdate): an update changes only the fields its patch
\* supplies, and an update with an empty patch leaves the whole record as it
\* was, name and status included.
UpdateAppliesOnlyPatch ==
    [][\A id \in OneId, req \in Patches :
        (id \in DOMAIN switches /\ updateSwitch(id, req)) =>
            LET old == heap[switches[id]]
                new == heap'[switches[id]]
            IN  /\ req.IPAddress = "" => new.IPAddress = old.IPAddress
                /\ req.Port = 0 => new.Port = old.Port
                /\ req.UseHTTPS = Nil => new.UseHTTPS = old.UseHTTPS
                /\ req.Username = "" => new.Username = old.Username
                /\ req.Password = "" =>
                        /\ new.Password = old.Password
                        /\ new.AuthToken = old.AuthToken
                        /\ new.TokenExpiry = old.TokenExpiry
                /\ req = PatchNone => new = old]_vars

\* C10 as amended (SpecUpdate): an update changes only the connection and
\* credential fields its patch supplies, leaves the token and its expiry as
\* they were when the patch has no password, and never touches the id, the
\* system info, the last sync time and the schema; but every update, also
\* one with an empty patch, sets the name to address:port and the status to
\* connecting.
UpdateKeepsUnsuppliedFields ==
    [][\A id \in OneId, req \in Patches :
        (id \in DOMAIN switches /\ updateSwitch(id, req)) =>
            LET old == heap[switches[id]]
                new == heap'[switches[id]]
            IN  /\ new.IPAddress = IF req.IPAddress = "" THEN old.IPAddress ELSE req.IPAddress
                /\ new.Port = IF req.Port = 0 THEN old.Port ELSE req.Port
                /\ new.UseHTTPS = IF req.UseHTTPS = Nil THEN old.UseHTTPS ELSE req.UseHTTPS[1]
                /\ new.Username = IF req.Username = "" THEN old.Username ELSE req.Username
                /\ req.Password = "" =>
                        /\ new.Password = old.Password
                        /\ new.AuthToken = old.AuthToken
                        /\ new.TokenExpiry = old.TokenExpiry
                /\ new.Name = AddrPort(new.IPAddress, new.Port)
                /\ new.Status = "connecting"
                /\ req = PatchNone =>
                        new = [old EXCEPT !.Name = AddrPort(old.IPAddress, old.Port),
                                          !.Status = "connecting"]
                /\ heap' = [heap EXCEPT ![switches[id]] =
                                [old EXCEPT !.IPAddress = new.IPAddress,
                                            !.Port = new.Port,
                                            !.UseHTTPS = new.UseHTTPS,
                                            !.Username = new.Username,
                                            !.Password = new.Password,
                                            !.AuthToken = new.AuthToken,
                                            !.TokenExpiry = new.TokenExpiry,
                                            !.Name = new.Name,
                                            !.Status = new.Status]]]_vars

\* C10 witness: a switch that was online under the name sw1 was updated
\* with empty patches only: its connection, credentials and session are
\* those it had, its name is address:port again and its status connecting.
EmptyUpdateResetsName ==
    \E p \in DOMAIN heap :
        /\ heap[p].IPAddress = CreateA.IPAddress
        /\ heap[p].Port = CreateA.Port
        /\ heap[p].UseHTTPS
        /\ heap[p].Username = CreateA.Username
        /\ heap[p].Password = CreateA.Password
        /\ heap[p].SystemInfo = Ptr(ParseState(StateNamed))
        /\ heap[p].AuthToken # ""
        /\ heap[p].Name = AddrPort(CreateA.IPAddress, CreateA.Port)
        /\ heap[p].Status = "connecting"

\* C11 (SpecRegistry): get, update, delete and the explicit sync request on
\* an id that is not in the registry answer 404 and change nothing else: no
\* record, not the map, not the id counter, not the token table, and no
\* sync or handler is started.
UnknownIdChangesNothing ==
    [][\A id \in Ids :
        (/\ id \notin DOMAIN switches
         /\ \/ getSwitch(id)
            \/ updateSwitch(id, PatchNone)
            \/ deleteSwitch(id)
            \/ syncSwitchEndpoint(id)) =>
            /\ resp'.code = StatusNotFound
            /\ resp'.id = id
            /\ resp'.body = {}
            /\ UNCHANGED <<switches, heap, nextID, uploadTokens, timers, syncs,
                           pending, pass, created, deleted>>]_vars

\* C11 witness: an explicit sync request for a switch that was deleted was
\* answered 404 while another switch is registered.
SyncOfDeletedNotFound ==
    /\ resp = Answer("sync", 1, StatusNotFound, {})
    /\ 1 \in deleted
    /\ DOMAIN switches = {2}

\* C12 (SpecSync): a sync authenticates before its state request exactly
\* when the token of the record is empty or the time is at or after the
\* expiry of the token, also when the time equals the expiry.
AuthAtOrAfterExpiry ==
    [][\A g \in BagToSet(syncs) :
        syncStart(g) =>
            LET sw == heap[g.sw]
                authenticates ==
                    syncs' = Step(g, [g EXCEPT !.pc = "auth", !.req = AuthRequest(sw)])
            IN  authenticates <=> (sw.AuthToken = "" \/ now >= sw.TokenExpiry)]_vars

\* C13 (SpecSync): an authentication that fails, because the switch is not
\* reached, answers another status than 200 or answers a body that does not
\* decode, ends the sync with an error and leaves token and expiry of the
\* record as they were; a successful one writes the token of the answer and
\* the time plus its ttl in one step and nothing else; no other step of a
\* sync writes the token or the expiry.
AuthFailureKeepsSession ==
    [][\A g \in BagToSet(syncs) :
        /\ \A reply \in AuthAnswers :
            authReply(g, reply) =>
                IF reply \notin AuthFailures
                  THEN /\ heap' = [heap EXCEPT ![g.sw].AuthToken = reply.token,
                                               ![g.sw].TokenExpiry = now + reply.ttl]
                       /\ \E g2 \in BagToSet(syncs') :
                            g2.sw = g.sw /\ g2.pc = "authed" /\ syncs' = Step(g, g2)
                  ELSE /\ heap'[g.sw].AuthToken = heap[g.sw].AuthToken
                       /\ heap'[g.sw].TokenExpiry = heap[g.sw].TokenExpiry
                       /\ heap'[g.sw].Status = "auth_failed"
                       /\ syncs' = Finish(syncs, g)
        /\ (syncStart(g) \/ fetchSend(g) \/ \E reply \in StateAnswers : fetchReply(g, reply)) =>
                \A p \in DOMAIN heap :
                    /\ heap'[p].AuthToken = heap[p].AuthToken
                    /\ heap'[p].TokenExpiry = heap[p].TokenExpiry]_vars

\* C13 witness: the session of a switch has expired, a new authentication
\* failed, and the record still holds the old token and its expiry.
AuthFailedKeepsSession ==
    \E p \in DOMAIN heap :
        /\ heap[p].Status = "auth_failed"
        /\ heap[p].AuthToken = "tok"
        /\ heap[p].TokenExpiry = ZeroTime + 2
        /\ now > heap[p].TokenExpiry

\* C14 (SpecSync): a sync whose state request fails, whatever the failure,
\* sets the status to error and changes nothing else of the record; the
\* last sync time of a record changes only in the step that commits a
\* successful state request for it.
FetchFailureKeepsData ==
    [][/\ \A g \in BagToSet(syncs), reply \in StateAnswers :
            (~FetchSucceeds(reply) /\ fetchReply(g, reply)) =>
                heap' = [heap EXCEPT ![g.sw].Status = "error"]
       /\ \A p \in DOMAIN heap :
            heap'[p].LastSync # heap[p].LastSync =>
                \E g \in BagToSet(syncs), reply \in StateAnswers :
                    g.sw = p /\ FetchSucceeds(reply) /\ fetchReply(g, reply)]_vars

\* C14 witness: a switch that was online under the name sw1 is in status
\* error at a later time and still has its system info, its name and the
\* time of its last successful sync.
ErrorKeepsStaleInfo ==
    \E p \in DOMAIN heap :
        /\ heap[p].Status = "error"
        /\ heap[p].SystemInfo = Ptr(ParseState(StateNamed))
        /\ heap[p].Name = "sw1"
        /\ heap[p].LastSync # Nil
        /\ heap[p].LastSync # Ptr(now)

\* C15 (SpecSync): in both calls of a sync, a switch that is not reached
\* or that answers 401 leads to status auth_failed, and another unexpected
\* status or a body that does not decode leads to status error.
FailureKindDecidesStatus ==
    [][\A g \in BagToSet(syncs) :
        /\ \A reply \in AuthAnswers :
            (~AuthSucceeds(reply) /\ authReply(g, reply)) =>
                heap'[g.sw].Status =
                    IF reply.err \/ reply.status = 401 THEN "auth_failed" ELSE "error"
        /\ \A reply \in StateAnswers :
            (~FetchSucceeds(reply) /\ fetchReply(g, reply)) =>
                heap'[g.sw].Status =
                    IF reply.err \/ reply.status = 401 THEN "auth_failed" ELSE "error"]_vars

\* C16 (SpecLoop): a periodic pass is not given up when a sync fails. The
\* loop moves on only when the call of syncSwitch for the next switch of
\* its snapshot has committed online, auth_failed or error, a failure moves
\* it on like a success, a new snapshot is taken only after the loop went
\* through the whole snapshot before, and every pass that has begun goes
\* through its whole snapshot.
PassSyncsEveryDevice ==
    /\ [][pass.i' # pass.i =>
            \/ /\ LoopIdle
               /\ pass.i' = 0
            \/ /\ pass.i' = pass.i + 1
               /\ pass.snapshot' = pass.snapshot
               /\ \E g \in LoopTasks :
                    /\ g.sw = pass.snapshot[pass.i + 1]
                    /\ syncs' = Finish(syncs, g)
                    /\ heap'[g.sw].Status \in {"online", "auth_failed", "error"}]_vars
    /\ [][pass.snapshot' # pass.snapshot => LoopIdle]_vars
    /\ (pass.i < Len(pass.snapshot)) ~> (pass.i = Len(pass.snapshot))

\* C16 witness: a pass over two switches is over; the sync of the first
\* switch of its snapshot failed at the authentication and the second
\* switch was synchronised after it.
PassCompletedAfterFailure ==
    /\ Len(pass.snapshot) = 2
    /\ pass.i = 2
    /\ LoopTasks = {}
    /\ heap[pass.snapshot[1]].Status = "auth_failed"
    /\ heap[pass.snapshot[2]].Status = "online"
    /\ heap[pass.snapshot[2]].LastSync = Ptr(now)
    /\ now > ZeroTime + 1

\* C17 (SpecLoop): a remote call that is blocked for one switch does not
\* hold up the other switches of the pass. While the sync of a switch of
\* the snapshot waits for the answer to its authentication or state
\* request, the sync of the next switch of the snapshot can start.
OtherSyncStartsWhileBlocked ==
    \A g \in LoopTasks :
        (g.pc \in {"auth", "fetch"} /\ pass.i + 1 < Len(pass.snapshot)) =>
            ENABLED syncNext

\* C18 (SpecDemand): a create, an update of an existing switch and an
\* explicit sync request for an existing switch each start, in the step
\* that handles them, a goroutine of their own that runs syncSwitch for the
\* switch; such a goroutine can always take its next step, whatever the
\* periodic pass is doing.
OnDemandSyncStartsAtOnce ==
    /\ [][/\ createSwitch(CreateB) => syncs' = Spawn(syncs, SyncTask(Len(heap) + 1))
          /\ \A id \in DOMAIN switches :
                /\ updateSwitch(id, PatchNone) =>
                        syncs' = Spawn(syncs, SyncTask(switches[id]))
                /\ syncSwitchEndpoint(id) =>
                        syncs' = Spawn(syncs, SyncTask(switches[id]))]_vars
    /\ [](\A g \in BagToSet(syncs) :
            ~g.loop =>
                ENABLED (\/ syncStart(g)
                         \/ \E reply \in PassAuthAnswers(g.req) : authReply(g, reply)
                         \/ fetchSend(g)
                         \/ \E reply \in PassStateAnswers(g.req) : fetchReply(g, reply)))

\* C18 witness: while the periodic pass waits for the answer to the state
\* request of a switch, a sync of the same switch started by an explicit
\* sync request has sent its own state request.
DemandSyncDuringPass ==
    /\ resp = Answer("sync", 1, StatusOK, {})
    /\ \E g \in LoopTasks, h \in BagToSet(syncs) :
            /\ g.pc = "fetch"
            /\ ~h.loop
            /\ h.sw = g.sw
            /\ h.pc = "fetch"

\* C19 (SpecToken): a schema request registers its token for its switch
\* and starts the cleanup of the token in TokenLifetime seconds before it
\* sends the push request; when the push request does not reach the switch
\* or is answered with an error, the requester is answered 500 and the
\* token table and the cleanups stay as they are; and a callback with a
\* token of the table is read and answered 200.
PushFailureKeepsToken ==
    [][/\ \A id \in DOMAIN switches :
            fetchSchema(id) =>
                LET token == UploadToken(id, now) IN
                    /\ token \in DOMAIN uploadTokens'
                    /\ uploadTokens'[token] = id
                    /\ timers' = Spawn(timers, [token |-> token,
                                                wake |-> now + TokenLifetime])
       /\ \A h \in BagToSet(pending), reply \in PushFailures :
            schemaReply(h, reply) =>
                /\ resp' = Answer("fetchSchema", h.id, StatusInternalServerError, {})
                /\ uploadTokens' = uploadTokens
                /\ timers' = timers
       /\ \A token \in DOMAIN uploadTokens :
            uploadSchema(token, "body", PlainSchema) =>
                pending' = Spawn(pending,
                                 Handler("upload", uploadTokens[token], NoPointer, token,
                                         PlainSchema.raw))
       /\ \A h \in BagToSet(pending) :
            storeSchema(h) => resp' = Answer("upload", h.id, StatusOK, {h.token})]_vars

\* C19 witness: the only schema request made was answered 500, time has
\* passed, its token is still registered with its cleanup to come, and a
\* callback with the token has been read and is about to be stored.
PushFailedTokenKept ==
    /\ resp = Answer("fetchSchema", 1, StatusInternalServerError, {})
    /\ Len(issued) = 1
    /\ now > issued[1].at
    /\ issued[1].token \in DOMAIN uploadTokens
    /\ \E tm \in BagToSet(timers) : tm.token = issued[1].token /\ tm.wake > now
    /\ \E h \in BagToSet(pending) : h.op = "upload" /\ h.token = issued[1].token

\* C20 (SpecToken): a callback whose token is not in the token table, be
\* it unknown, consumed or expired, is answered 404 and changes nothing
\* else: not the token table, not a record, and no upload is started.
UnknownTokenRejected ==
    [][\A token \in Tokens :
        (token \notin DOMAIN uploadTokens /\ uploadSchema(token, "body", PlainSchema)) =>
            /\ resp' = Answer("upload", 0, StatusNotFound, {token})
            /\ UNCHANGED <<switches, heap, nextID, uploadTokens, timers, syncs,
                           pending, accepted>>]_vars

\* C20 witness: a callback with a token that was consumed before was
\* answered 404, and the schema stored by the first callback is in place.
ConsumedTokenRejected ==
    \E i \in DOMAIN issued :
        /\ issued[i].token \in accepted
        /\ issued[i].token \notin DOMAIN uploadTokens
        /\ resp = Answer("upload", 0, StatusNotFound, {issued[i].token})
        /\ \E p \in DOMAIN heap :
                /\ heap[p].OpenAPISchema = PlainSchema.raw
                /\ heap[p].SchemaFetchedAt # Nil

\* C21 (SpecUpload): an upload that starts with the gzip magic number and
\* that cannot be decompressed, cannot be read as an archive or holds no
\* openapi.yaml is not rejected: its raw bytes are kept as the schema, and
\* the step that stores them writes the schema and the time of the step to
\* the switch of the token, consumes the token and answers 200.
GzipFallbackStoresRaw ==
    [][/\ \A token \in DOMAIN uploadTokens, form \in Forms, data \in Unextractable :
            uploadSchema(token, form, data) =>
                pending' = Spawn(pending,
                                 Handler("upload", uploadTokens[token], NoPointer, token,
                                         data.raw))
       /\ \A h \in BagToSet(pending) :
            storeSchema(h) =>
                /\ resp' = Answer("upload", h.id, StatusOK, {h.token})
                /\ h.token \notin DOMAIN uploadTokens'
                /\ h.id \in DOMAIN switches =>
                        /\ heap'[switches[h.id]].OpenAPISchema = h.text
                        /\ heap'[switches[h.id]].SchemaFetchedAt = Ptr(now)]_vars

\* C21 witness: an archive whose schema entry could not be read was
\* accepted, and its raw bytes are the schema of the switch.
RawArchiveStored ==
    /\ resp.op = "upload"
    /\ resp.code = StatusOK
    /\ resp.body \subseteq accepted
    /\ \E p \in DOMAIN heap :
            /\ heap[p].OpenAPISchema = ArchiveBrokenBody.raw
            /\ heap[p].SchemaFetchedAt = Ptr(now)
    /\ resp.body \cap DOMAIN uploadTokens = {}

\* C22 (SpecRetry): no status is terminal and the periodic pass is the only
\* retry. The snapshot of a pass holds every registered switch whatever its
\* status, a sync that ends starts no other sync, and once the ticker has
\* fired at a time from which the switch answers every request, a switch
\* that stays registered is eventually online.
FailedSwitchRetriedByPass ==
    /\ [][syncAllSwitches => Range(pass.snapshot') = Range(switches)]_vars
    /\ [][BagCardinality(syncs') > BagCardinality(syncs) =>
            \/ syncNext
            \/ Len(created') > Len(created)]_vars
    /\ (switches # EmptyMap /\ now >= HealTime)
            ~> (\A id \in DOMAIN switches : heap[switches[id]].Status = "online")

\* C22 witness: the switch had no session when the pass after the failures
\* started; the sync of that pass authenticated and committed online.
RetriedOnline ==
    /\ now >= HealTime
    /\ Len(pass.snapshot) = 1
    /\ pass.i = 1
    /\ syncs = EmptyBag
    /\ heap[pass.snapshot[1]].Status = "online"
    /\ heap[pass.snapshot[1]].LastSync = Ptr(now)
    /\ heap[pass.snapshot[1]].TokenExpiry = now + 3600

\* C23 (SpecUpload): of the callbacks that arrive with the same token at
\* most one is accepted. A callback stores its schema and answers 200 only
\* while its token is in the table, so not after another callback with the
\* same token was accepted and consumed it.
ConcurrentCallbacksAcceptedOnce ==
    [][\A h \in BagToSet(pending) :
        storeSchema(h) => h.token \in DOMAIN uploadTokens]_vars

\* C24 (SpecRegistry): every read and every write of the fields of a record
\* holds the lock of the registry, so no goroutine is about to read a record
\* outside the lock while another goroutine is about to write it.
RecordAccessUnderLock ==
    \A p \in DOMAIN heap : ~(ReadsUnlocked(p) /\ WritesLocked(p))

\* C25 (SpecToken): a schema request is sent with a valid session. The
\* push request of fetchSchema for a registered switch carries a token that
\* is not empty and whose expiry has not passed.
SchemaRequestHasSession ==
    [][\A id \in DOMAIN switches :
        fetchSchema(id) =>
            /\ heap[switches[id]].AuthToken # ""
            /\ ~(now > heap[switches[id]].TokenExpiry)
            /\ \E h \in BagToSet(pending') :
                    /\ pending' = Spawn(pending, h)
                    /\ h.text = heap[switches[id]].AuthToken]_vars

\* C26 (SpecToken): every upload token generated differs from every token
\* generated before it, also one for the same switch in the same second.
UploadTokensDistinct ==
    \A i, j \in DOMAIN issued : i # j => issued[i].token # issued[j].token

\* C27 (SpecSync): the steps of one sync run in order and none is repeated.
\* Every step of a sync either moves it forward (start, authentication
\* request, session, state request) without writing the status, or ends it
\* with its one commit; the state request is built only after the session
\* test or a successful authentication, a failed authentication ends the
\* sync with auth_failed and no state request, and the commit writes
\* online only on a successful answer to the state request.
SyncStepsInOrder ==
    [][
    LET Rank(pc) == CASE pc = "start" -> 0 [] pc = "auth" -> 1
                      [] pc = "authed" -> 2 [] pc = "fetch" -> 3
        Forward(g) == \E pc \in {"auth", "authed", "fetch"} :
                        /\ Rank(pc) > Rank(g.pc)
                        /\ \E g2 \in BagToSet(syncs') :
                                /\ g2.pc = pc
                                /\ g2.sw = g.sw
                                /\ syncs' = Step(g, g2)
                        /\ heap'[g.sw].Status = heap[g.sw].Status
                        /\ heap'[g.sw].LastSync = heap[g.sw].LastSync
        Ends(g, status) == /\ syncs' = Finish(syncs, g)
                           /\ heap'[g.sw].Status \in status
    IN
       \A g \in BagToSet(syncs) :
        /\ syncStart(g) => Forward(g) /\ heap' = heap
        /\ \A reply \in AuthAnswers :
            authReply(g, reply) =>
                IF reply \in AuthFailures
                  THEN Ends(g, {"auth_failed"})
                  ELSE Forward(g) /\ g.pc = "auth"
        /\ fetchSend(g) => Forward(g) /\ g.pc = "authed" /\ heap' = heap
        /\ \A reply \in StateAnswers :
            fetchReply(g, reply) =>
                /\ g.pc = "fetch"
                /\ IF reply \in {StateOK(StateNamed), StateOK(StateUnnamed)}
                     THEN Ends(g, {"online"})
                     ELSE Ends(g, {"error"})]_vars

\* C27 witness: an explicit sync of a switch without session is over; it
\* authenticated, fetched and committed online, all in the same second.
SyncRanOnce ==
    /\ resp.op = "sync"
    /\ resp.code = StatusOK
    /\ syncs = EmptyBag
    /\ \E p \in DOMAIN heap :
            /\ heap[p].Status = "online"
            /\ heap[p].LastSync = Ptr(now)
            /\ heap[p].TokenExpiry = now + 1
            /\ now > ZeroTime + 1

\* C30 (SpecSession): the token and the expiry of a session go together: both
\* are unset (empty token, zero expiry) or both are set.
SessionFieldsTogether ==
    \A p \in DOMAIN heap : (heap[p].AuthToken = "") <=> (heap[p].TokenExpiry = ZeroTime)

\* C28 (SpecDemand): only create and update write the status connecting. A
\* record that is connecting after a step was connecting before it, or is
\* the record createSwitch has just made, or is the record of the switch
\* that updateSwitch has just changed; no step of a periodic or explicit
\* sync writes connecting.
ConnectingOnlyByCreateOrUpdate ==
    [][\A p \in DOMAIN heap' :
        heap'[p].Status = "connecting" =>
            \/ p \in DOMAIN heap /\ heap[p].Status = "connecting"
            \/ p \notin DOMAIN heap /\ created' = Append(created, heap'[p].ID)
            \/ \E id \in DOMAIN switches :
                    /\ switches[id] = p
                    /\ updateSwitch(id, PatchNone)]_vars

\* C28 witness: an update has put a switch that was synchronised before
\* back to connecting while a periodic pass is under way.
ReconnectingDuringPass ==
    /\ pass.i < Len(pass.snapshot)
    /\ \E p \in DOMAIN heap :
            /\ heap[p].Status = "connecting"
            /\ heap[p].LastSync # Nil
            /\ heap[p].SystemInfo # Nil

SystemInfoStaysPresent ==
    [][\A p \in DOMAIN heap :
        heap[p].SystemInfo # Nil => heap'[p].SystemInfo # Nil]_vars

\* C31 witness: the switch was synchronised, its password was updated, the
\* sync after the update failed at the authentication and a schema was
\* stored; the systemInfo of the first sync is still there.
InfoSurvivesFailureAndUpload ==
    \E p \in DOMAIN heap :
        /\ heap[p].Status = "auth_failed"
        /\ heap[p].Password = PatchPassword.Password
        /\ heap[p].OpenAPISchema = PlainSchema.raw
        /\ heap[p].SystemInfo = Ptr(ParseState(StateNamed))

\* C32 (SpecSchema): the schema and its time are written only by an
\* accepted upload, together, on the switch for which the token was
\* issued. A new record has neither; when a step changes either field of a
\* record, the step is the storing of an upload whose token was generated
\* for the id of that record, and it writes the uploaded schema and the
\* time of the step. No create, update, delete, sync step or schema request
\* changes them.
SchemaWrittenOnlyByUpload ==
    [][\A p \in DOMAIN heap' :
        LET old == IF p \in DOMAIN heap
                     THEN <<heap[p].OpenAPISchema, heap[p].SchemaFetchedAt>>
                     ELSE <<"", Nil>>
        IN  <<heap'[p].OpenAPISchema, heap'[p].SchemaFetchedAt>> # old =>
                \E h \in BagToSet(pending) :
                    /\ storeSchema(h)
                    /\ h.id = heap[p].ID
                    /\ \E i \in DOMAIN issued : h.token = UploadToken(heap[p].ID, issued[i].at)
                    /\ heap'[p].OpenAPISchema = h.text
                    /\ heap'[p].SchemaFetchedAt = Ptr(now)]_vars

\* C32 witness: the second switch has the schema an upload stored and the
\* time of the upload; it was updated and synchronised since, and the first
\* switch, which has no schema, has just been deleted.
SchemaKeptThroughOtherRequests ==
    /\ resp = Answer("delete", 1, StatusOK, {})
    /\ accepted # {}
    /\ 2 \in DOMAIN switches
    /\ heap[switches[2]].OpenAPISchema = PlainSchema.raw
    /\ heap[switches[2]].SchemaFetchedAt = Ptr(now)
    /\ heap[switches[2]].Status = "online"
    /\ \E q \in DOMAIN heap :
            /\ heap[q].ID = 1
            /\ heap[q].OpenAPISchema = ""
            /\ heap[q].SchemaFetchedAt = Nil

\* C33 (SpecCards): the result of the state fetch takes the model name, the
\* firmware version and the number of ports from the first card of the
\* answer whatever the later cards hold; without a card the three are
\* empty, empty and 0, the fetch succeeds all the same, and the identity
\* fields are those of the answer.
FirstCardOnly ==
    [][\A g \in BagToSet(syncs), reply \in CardAnswers :
        fetchReply(g, reply) =>
            LET info == heap'[g.sw].SystemInfo[1]
                cards == reply.state.cards
            IN  /\ heap'[g.sw].Status = "online"
                /\ info.SysName = reply.state.sysName
                /\ info.SysDescription = reply.state.sysDescription
                /\ info.NosType = reply.state.nosType
                /\ info.ChassisId = reply.state.chassisId
                /\ info.IsDigitalTwin = reply.state.isDigitalTwin
                /\ <<info.ModelName, info.FirmwareVersion, info.NumPorts>> =
                        IF cards = <<>>
                          THEN <<"", "", 0>>
                          ELSE <<cards[1].modelName, cards[1].firmwareVersion,
                                 cards[1].numPorts>>]_vars

\* C33 witness: the switch answered with the two cards of a chassis and its
\* record holds the facts of the first.
ChassisReportsFirstCard ==
    \E p \in DOMAIN heap :
        /\ heap[p].Status = "online"
        /\ heap[p].Name = StateChassis.sysName
        /\ heap[p].SystemInfo # Nil
        /\ heap[p].SystemInfo[1].ModelName = "M2"
        /\ heap[p].SystemInfo[1].NumPorts = 48

\* C35 (SpecRotate): when no sync is under way, the token of a record is
\* empty or was obtained with the password the record holds: a sync that
\* sent its authentication request with the password from before an update
\* leaves no token on the record.
TokenMatchesPassword ==
    syncs = EmptyBag =>
        \A p \in DOMAIN heap :
            heap[p].AuthToken \in {"", TokenFor(heap[p].Password)}

\* C36 (SpecRotate): a sync commits online only what it fetched from the
\* address, port and transport the record holds at the commit: the state
\* request whose answer is committed went to the URL that the record gives
\* now, so a sync that fetched before an update of the address does not
\* overwrite the status and name the update has set.
OnlineCommitFromCurrentTarget ==
    [][\A g \in BagToSet(syncs) :
        fetchReply(g, StateOK(StateNamed)) =>
            g.req.url = StateRequest(heap[g.sw]).url]_vars

\* C37 (SpecSchema): a callback that is answered 200 has stored its schema
\* and the time on the switch of its token; when that switch was deleted
\* after the schema request, the callback is not answered 200.
AcceptedUploadIsStored ==
    [][\A h \in BagToSet(pending) :
        (storeSchema(h) /\ resp'.code = StatusOK) =>
            /\ h.id \in DOMAIN switches
            /\ heap'[switches[h.id]].OpenAPISchema = h.text
            /\ heap'[switches[h.id]].SchemaFetchedAt = Ptr(now)]_vars

\* C38 (SpecDetach): a deleted switch stays deleted. An id that was deleted
\* is never in the map again, a get of it is answered 404, a list holds no
\* switch with it, and every step of a sync, also of one that was under way
\* at the delete or that a periodic pass runs from a snapshot taken before
\* it, leaves the map as it is and writes to the record of its own pointer
\* only.
DeletedStaysDeleted ==
    /\ [](\A id \in deleted : id \notin DOMAIN switches)
    /\ [][/\ \A id \in deleted :
                getSwitch(id) => resp' = Answer("get", id, StatusNotFound, {})
          /\ listSwitches => \A v \in resp'.body : v.ID \notin deleted
          /\ \A g \in BagToSet(syncs) :
                (\/ syncStart(g)
                 \/ authReply(g, AuthOK("tok", 3600))
                 \/ fetchSend(g)
                 \/ fetchReply(g, StateOK(StateNamed)))
                => /\ switches' = switches
                   /\ nextID' = nextID
                   /\ \A p \in DOMAIN heap : p # g.sw => heap'[p] = heap[p]]_vars

\* C38 witness: the switch was deleted while syncs of it were under way;
\* they have all committed since, the last one in a periodic pass, to the
\* record that is no longer in the map, and a get of the id was answered
\* 404.
DetachedRecordSynced ==
    /\ resp = Answer("get", 1, StatusNotFound, {})
    /\ 1 \in deleted
    /\ syncs = EmptyBag
    /\ Len(pass.snapshot) = 1
    /\ pass.i = 1
    /\ heap[pass.snapshot[1]].ID = 1
    /\ heap[pass.snapshot[1]].Status = "online"
    /\ heap[pass.snapshot[1]].LastSync = Ptr(now)

\* C39 (SpecInfo): a record that is online has its lastSyncTime and its
\* systemInfo, and a record that has a lastSyncTime has a systemInfo.
OnlineHasSyncData ==
    \A p \in DOMAIN heap :
        /\ heap[p].Status = "online" =>
                heap[p].LastSync # Nil /\ heap[p].SystemInfo # Nil
        /\ heap[p].LastSync # Nil => heap[p].SystemInfo # Nil

\* C39 witness: a switch that is online was renamed by updateSystemInfo
\* after its sync; it has the time of the sync and the card facts the sync
\* read.
OnlineRecordRenamed ==
    \E p \in DOMAIN heap :
        /\ heap[p].Status = "online"
        /\ heap[p].LastSync = Ptr(now)
        /\ heap[p].SystemInfo # Nil
        /\ heap[p].SystemInfo[1].SysName = InfoRename.SysName
        /\ heap[p].SystemInfo[1].NumPorts = 24

\* C40 (SpecSync): a sync whose state request fails, also one that the
\* switch answers 401 for the token, leaves the token and the expiry as
\* they are, and a sync that starts while the record has a token whose
\* expiry has not passed goes on to its state request with that token and
\* authenticates no more.
FailedFetchKeepsSession ==
    [][\A g \in BagToSet(syncs) :
        /\ \A reply \in {StateRefused, StateUnreachable, StateRejected, StateGarbled} :
                fetchReply(g, reply) =>
                    /\ heap'[g.sw].AuthToken = heap[g.sw].AuthToken
                    /\ heap'[g.sw].TokenExpiry = heap[g.sw].TokenExpiry
        /\ (/\ syncStart(g)
            /\ heap[g.sw].AuthToken # ""
            /\ ~(now > heap[g.sw].TokenExpiry)) =>
                /\ syncs' = Step(g, [g EXCEPT !.pc = "authed"])
                /\ heap' = heap
        /\ (fetchSend(g) /\ heap[g.sw].Status = "error") =>
                \E g2 \in BagToSet(syncs') :
                    /\ syncs' = Step(g, g2)
                    /\ g2.req.token = heap[g.sw].AuthToken]_vars

\* C40 witness: the last sync of the switch was answered 401 for the token
\* and the record is in error; a sync after it has sent its state request
\* with the same token, which has not expired.
RejectedTokenReused ==
    /\ resp = Answer("sync", 1, StatusOK, {})
    /\ \E g \in BagToSet(syncs) :
            /\ BagCardinality(syncs) = 1
            /\ g.pc = "fetch"
            /\ heap[g.sw].Status = "error"
            /\ heap[g.sw].AuthToken # ""
            /\ g.req.token = heap[g.sw].AuthToken
            /\ now = heap[g.sw].TokenExpiry

=============================================================================
